---- MODULE Spec2Model ----
(***************************************************************************)
(* A model of pa-jail (src/jail/pa-jail.cc), the privileged tool that      *)
(* builds a chroot jail, enters it, drops to the jail user and relays a    *)
(* pseudo-terminal.                                                        *)
(*                                                                         *)
(* These specifications share this module:                                 *)
(*   SpecRun   main() -> jailownerinfo::exec -> exec_go up to the entry    *)
(*             of the multiplex loop, with the process identities and the  *)
(*             state-changing system calls that were performed;            *)
(*   SpecDir   the component walk of jaildirinfo::jaildirinfo and the      *)
(*             home directories main makes after it;                       *)
(*   SpecLoop  jailownerinfo::wait_background, check_child_timeout and     *)
(*             exec_done, with the jbuffers, the timers and the invoker;   *)
(*   SpecDrain SpecLoop for runs without timeout and SIGTERM, with the     *)
(*             controller and the invoker scheduled fairly;                *)
(*   SpecSub   the controller with --event-source: the subscribers (esfd), *)
(*             their events and the final flush of exec_done;              *)
(*   SpecConf  the rules of /etc/pa-jail.conf (pajailconf::allows_type);   *)
(*   SpecRm    pa-jail rm: its options, the umounts and                    *)
(*             jaildirinfo::remove_recursive;                              *)
(*   SpecStr   shell_quote and the command string of exec;                 *)
(*   SpecBuf   one jbuffer with its reads, writes and appends;             *)
(*   SpecAdd   pa-jail add and the construction phase of pa-jail run:      *)
(*             construct_jail, handle_copy, do_copy, handle_mount and the  *)
(*             mounts of exec_go, on a small file system;                  *)
(*   SpecLink  SpecAdd for manifests of symbolic links, with the process   *)
(*             taking its steps as long as it has not exited;              *)
(*   SpecPath  check_filename and path_parentdir on short strings;         *)
(*   SpecMountopt  the option flags of a mountslot;                        *)
(*   SpecExec  the environment and the arguments of the payload's shell;   *)
(*   SpecBind  the tag file of a bind source across invocations;           *)
(*   SpecManifest  the lines of a manifest up to handle_copy.              *)
(***************************************************************************)
EXTENDS Integers, Sequences, FiniteSets, TLC

(***************************************************************************)
(* Shared by SpecRun and SpecLoop: processes, positions, exit codes.       *)
(***************************************************************************)
VARIABLES
    pc,            \* process -> position in the code
    exitcode,      \* process -> exit status, -1 while it has not exited
    cred,          \* process -> [ruid, euid, suid, rgid, egid, sgid]
    foreground_    \* jailownerinfo::foreground_ (main's `foreground`)

(***************************************************************************)
(* SpecRun: command line, identities from passwd, performed system calls.  *)
(***************************************************************************)
VARIABLES
    action,        \* jailaction after argument checking
    dryrun,        \* -n
    has_user,      \* optind + 1 < argc
    has_cmd,       \* optind + 2 < argc
    pidfile,       \* -p PIDFILE given
    caller_owner,  \* getuid() of the invoker
    caller_group,  \* getgid() of the invoker
    owner_,        \* jailownerinfo::owner_
    group_,        \* jailownerinfo::group_
    goer,          \* the process that executes exec_go
    syscalls,      \* state-changing system calls that succeeded so far
    idlog,         \* the payload's identity changes, in order
    tries,         \* set*id attempts made by the payload after execve
    exit_value,    \* static int exit_value, set by perror_fail
    failed         \* calls that failed while the jail was constructed

(***************************************************************************)
(* SpecDir: the walk of jaildirinfo::jaildirinfo over the jail path.       *)
(***************************************************************************)
VARIABLES
    dir,           \* jaildirinfo::dir, a sequence of characters
    permdir,       \* jaildirinfo::permdir
    nodes,         \* the file system along dir: end of a prefix -> inode
    last_pos,      \* position in dir of the next component
    fd,            \* end of the prefix the descriptor names, -1 if none
    parentfd,      \* the same for jaildirinfo::parentfd
    dryrunning,    \* local of the constructor
    doforce,       \* rm -f
    opened,        \* components opened with O_NOFOLLOW and then checked
    made           \* components created by v_mkdirat

(***************************************************************************)
(* SpecLoop: the controller (jailownerinfo::wait_background).              *)
(***************************************************************************)
VARIABLES
    to_slave_,       \* jbuffer input -> pty master
    to_slave_off_,
    from_slave_,     \* jbuffer pty master -> stdout
    from_slave_off_,
    child_status_,
    got_sigterm,
    timeout_,
    idle_timeout_,
    expiry_,         \* struct timeval as a number of ticks, 0 when clear
    idle_expiry_,
    inputfd_,
    stdin_tty_,
    stdout_tty_,
    stderr_tty_,
    quiet,
    verbose,
    now,             \* gettimeofday
    input,           \* bytes the input descriptor will still deliver
    outleft,         \* bytes the payload will still put into the pty
    sigpending,      \* a SIGTERM is queued on the signal descriptor
    reaped,          \* waitpid has returned the payload
    exit_status,     \* argument of exec_done, -1 before
    cause,           \* the place that called exec_done
    xmsg,            \* trailing banner written to stderr
    ptywritten,      \* bytes written to the pty master, in order
    inread,          \* bytes read from the input descriptor, in order
    nread,           \* bytes read from the pty master
    nwritten         \* bytes written to stdout

(***************************************************************************)
(* SpecSub: the subscribers of --event-source.                             *)
(***************************************************************************)
VARIABLES
    eventsourcefd,   \* the listening socket, -1 without --event-source
    esfds_,          \* std::list<esfd>
    conns,           \* connections waiting in the backlog of the socket
    accepted,        \* connections accepted so far
    stalled,         \* descriptors whose peer has stopped reading for good
    outdata,         \* every byte the payload puts into the pty, in order
    evlog            \* the events write_event has appended, in order

(***************************************************************************)
(* SpecConf: the policy file /etc/pa-jail.conf (struct pajailconf).        *)
(***************************************************************************)
VARIABLES
    conf,               \* the lines of buf_: [action, arg] after take_word
    cdir,               \* the directory passed to the last query
    called,             \* the query made last, "none" before the first
    allowed,            \* what the query returned
    treedir_,           \* pajailconf::treedir_
    allowance_pattern_  \* pajailconf::allowance_pattern_

(***************************************************************************)
(* SpecRm: pa-jail rm, with the mounts and the files of the jail.          *)
(***************************************************************************)
VARIABLES
    opt,          \* the option given after the word rm: none, --bg or --fg
    fs,           \* directory -> what is mounted there, topmost first, the
                  \* directory itself last; each [dev, entries]
    dev,          \* jaildirinfo::dev, st_dev of the jail directory
    procmounts,   \* the mnt_dir column of /proc/mounts
    mount_table,  \* keys of mount_table
    visited,      \* keys the loop at 3497 has been at
    dst_table,    \* keys of dst_table with the value 3
    stack,        \* calls of remove_recursive in progress, innermost last
    oplog         \* calls made on the file system, and the usage message

(***************************************************************************)
(* SpecStr: the string helpers.                                            *)
(***************************************************************************)
VARIABLES
    argument,     \* the string passed to shell_quote
    quoted        \* what shell_quote returned

(***************************************************************************)
(* SpecBuf: one jbuffer under every order of its operations.               *)
(***************************************************************************)
VARIABLES
    jbuf_,        \* the jbuffer
    off_,         \* the offset its caller passes to write and consume_to
    fed,          \* the bytes appended or read in, in order
    sent          \* the bytes ::write has taken, in order

(***************************************************************************)
(* SpecAdd: pa-jail add and run while the jail is built and mounted.       *)
(***************************************************************************)
VARIABLES
    disk,          \* the file system: names along a path -> inode
    kmounts,       \* /proc/mounts, in the order of the mounts
    inv,           \* jaildir.dir as dstroot, linkdir, owner_home_, umask
    manifest_,     \* the lines of the manifest
    lineno,        \* the line, or the mount of exec_go, that is next
    frames,        \* calls of handle_copy in progress, innermost last
    hret,          \* what the call of handle_copy that ended returned
    dst_values,    \* dst_table: destination -> 1 (copied) or 2 (mounted)
    devino_table,  \* inode of a source -> the first copy made of it
    last_parentdir,         \* static in handle_copy
    dirtable,               \* v_ensuredir's memory: path -> result
    mount_slots,            \* mount_table: source -> mountslot
    mount_table_populated,  \* static in populate_mount_table
    delayed_mounts,
    mount_status,
    verbosefile,    \* the lines printed on verbosefile under -V
    mods,          \* changes made to the file system by this process
    mlog,          \* calls of mount(2) by this process and its child
    copied,        \* destinations do_copy has set out to make, in order
    runs           \* the invocations that have ended, in order

VARIABLES
    fn,            \* the function applied, "none" before the call
    fin,           \* its arguments
    fout,          \* what it returned
    \* a bind source across invocations (SpecBind)
    bindpc,        \* where the invocation stands
    tagfile,       \* the bytes of SRC/.pa-jail-bindtag, <<>> if there is none
    bindsrc,       \* the files of FILES the bind source holds
    hostfiles,     \* the files of FILES the host has
    want_tag,      \* TAG of the manifest line
    todo,          \* the lines of FILES construct_jail has yet to read
    reported,      \* the rebuild has printed an error
    rebuilt,       \* the tags a rebuild has ended for without an error
    binds          \* invocations so far

addState == <<disk, verbosefile, mods, dirtable, devino_table, dst_values,
              delayed_mounts, kmounts, mlog, mount_slots, copied>>
addVars == <<addState, inv, manifest_, lineno, frames, hret, last_parentdir,
             mount_table_populated, mount_status, runs>>
strVars == <<argument, quoted>>
bufVars == <<jbuf_, off_, fed, sent>>
bindVars == <<bindpc, tagfile, bindsrc, hostfiles, want_tag, todo, reported,
              rebuilt, binds>>
fnVars == <<fn, fin, fout, bindVars>>
restVars == <<strVars, bufVars, addVars, fnVars>>
confVars == <<conf, cdir, called, allowed, treedir_, allowance_pattern_>>
rmVars == <<opt, fs, dev, procmounts, mount_table, visited, dst_table, stack,
            oplog>>
subVars == <<eventsourcefd, esfds_, conns, accepted, stalled, outdata, evlog>>
sharedVars == <<pc, exitcode, cred, foreground_>>
loopCfg == <<timeout_, idle_timeout_, inputfd_, stdin_tty_, stdout_tty_,
             stderr_tty_, quiet, verbose>>
loopVars == <<to_slave_, to_slave_off_, from_slave_, from_slave_off_,
              child_status_, got_sigterm, expiry_, idle_expiry_, loopCfg,
              now, input, outleft, sigpending, reaped, exit_status, cause,
              xmsg, ptywritten, inread, nread, nwritten, subVars>>
dirVars == <<dir, permdir, nodes, last_pos, fd, parentfd, dryrunning,
             doforce, opened, made, confVars, restVars, rmVars>>
runIn == <<action, dryrun, has_user, has_cmd, pidfile>>
runVars == <<action, dryrun, has_user, has_cmd, pidfile, caller_owner,
             caller_group, owner_, group_, goer, syscalls, idlog, tries,
             exit_value, failed>>

ROOT == 0

\* Bound: set*id attempts of the payload after execve.
MaxTries == 2

Procs == {"main", "child", "payload"}

\* uids and gids of the model: root, the invoker, a jail user.
CallerUids == {0, 1000}
CallerGids == {0, 100}
OwnerUids == {0, 1000, 1001}
OwnerGids == {0, 101}
AllUids == CallerUids \cup OwnerUids
AllGids == CallerGids \cup OwnerGids

Actions == {"do_add", "do_run", "do_rm", "do_mv"}

NoCred == [ruid |-> -1, euid |-> -1, suid |-> -1,
           rgid |-> -1, egid |-> -1, sgid |-> -1]

(***************************************************************************)
(* Kernel rules for the set*id family as the tool uses them: a process     *)
(* with effective uid 0 may set any id, any other process only ids it      *)
(* already holds as real, effective or saved id.                           *)
(***************************************************************************)
MaySetuid(c, ids) == c.euid = ROOT \/ ids \subseteq {c.ruid, c.euid, c.suid}

MaySetgid(c, ids) == c.euid = ROOT \/ ids \subseteq {c.rgid, c.egid, c.sgid}

Setresuid(c, r, e, s) == [c EXCEPT !.ruid = r, !.euid = e, !.suid = s]

Setresgid(c, r, e, s) == [c EXCEPT !.rgid = r, !.egid = e, !.sgid = s]

\* die(), perror_die(): message to stderr, exit(1).
DieStatus == 1

Die(p) ==
    /\ pc' = [pc EXCEPT ![p] = "exited"]
    /\ exitcode' = [exitcode EXCEPT ![p] = DieStatus]

Exit(p, status) ==
    /\ pc' = [pc EXCEPT ![p] = "exited"]
    /\ exitcode' = [exitcode EXCEPT ![p] = status]

Goto(p, label) ==
    /\ pc' = [pc EXCEPT ![p] = label]
    /\ UNCHANGED exitcode

\* The v_* and x_* wrappers (v_mkdir, x_lchown, x_link, x_mount, ...):
\* print when verbose, perform the call only when dryrun is not set.
Wrapped(names) == IF dryrun THEN syscalls ELSE syscalls \cup names

(***************************************************************************)
(*                       SpecRun: main() up to exec                        *)
(***************************************************************************)

\* main, 3330-3333 with jailownerinfo::init: the jail user is looked up;
\* a missing user, a home outside /home, a shell that is not allowed and
\* uid 0 are fatal.
M_ParseUser ==
    /\ pc["main"] = "parse_user"
    /\ IF action \in {"do_add", "do_run"} /\ has_user
         THEN \E u \in OwnerUids, g \in OwnerGids,
                 pw \in {"ok", "nouser", "badhome", "badshell"} :
                 IF pw = "nouser"
                   THEN Die("main") /\ UNCHANGED <<owner_, group_>>
                   ELSE /\ owner_' = u
                        /\ group_' = g
                        /\ IF pw # "ok" \/ u = ROOT
                             THEN Die("main")
                             ELSE Goto("main", "revert")
         ELSE Goto("main", "revert") /\ UNCHANGED <<owner_, group_>>
    /\ UNCHANGED <<cred, foreground_, runIn, caller_owner, caller_group,
                   goer, syscalls, idlog, tries, exit_value,
                   failed, dirVars, loopVars>>

\* main, 3336-3345: remember the caller and take its effective ids.
M_Revert ==
    /\ pc["main"] = "revert"
    /\ caller_owner' = cred["main"].ruid
    /\ caller_group' = cred["main"].rgid
    /\ IF dryrun
         THEN Goto("main", "open_files") /\ UNCHANGED <<cred, syscalls>>
         ELSE LET c0 == cred["main"]
                  c1 == [c0 EXCEPT !.euid = c0.ruid]
                  c2 == [c1 EXCEPT !.egid = c0.rgid]
              IN \E ok1, ok2 \in BOOLEAN :
                   IF ~(ok1 /\ MaySetuid(c0, {c0.ruid}))
                     THEN Die("main") /\ UNCHANGED <<cred, syscalls>>
                     ELSE IF ~(ok2 /\ MaySetgid(c1, {c0.rgid}))
                       THEN /\ Die("main")
                            /\ cred' = [cred EXCEPT !["main"] = c1]
                            /\ syscalls' = syscalls \cup {"seteuid"}
                       ELSE /\ Goto("main", "open_files")
                            /\ cred' = [cred EXCEPT !["main"] = c2]
                            /\ syscalls' = syscalls \cup {"seteuid", "setegid"}
    /\ UNCHANGED <<foreground_, runIn, owner_, group_, goer, idlog, tries,
                   exit_value, failed,
                   dirVars, loopVars>>

\* main, 3352-3431: pid file, input, event source socket and timing file
\* are opened as the caller, none of them in a dry run.
M_OpenFiles ==
    /\ pc["main"] = "open_files"
    /\ IF pidfile /\ ~dryrun
         THEN \E ok \in BOOLEAN :
                IF ok
                  THEN /\ Goto("main", "escalate")
                       /\ syscalls' = syscalls \cup {"open_pidfile", "write_pidfile"}
                  ELSE Die("main") /\ UNCHANGED syscalls
         ELSE Goto("main", "escalate") /\ UNCHANGED syscalls
    /\ UNCHANGED <<cred, foreground_, runIn, caller_owner, caller_group,
                   owner_, group_, goer, idlog, tries, exit_value,
                   failed, dirVars, loopVars>>

\* main, 3433-3440: real, effective and saved ids become root.
M_Escalate ==
    /\ pc["main"] = "escalate"
    /\ IF dryrun
         THEN Goto("main", "jaildir") /\ UNCHANGED <<cred, syscalls>>
         ELSE LET c0 == cred["main"]
                  c1 == Setresgid(c0, ROOT, ROOT, ROOT)
                  c2 == Setresuid(c1, ROOT, ROOT, ROOT)
              IN \E ok1, ok2 \in BOOLEAN :
                   IF ~(ok1 /\ MaySetgid(c0, {ROOT}))
                     THEN Die("main") /\ UNCHANGED <<cred, syscalls>>
                     ELSE IF ~(ok2 /\ MaySetuid(c1, {ROOT}))
                       THEN /\ Die("main")
                            /\ cred' = [cred EXCEPT !["main"] = c1]
                            /\ syscalls' = syscalls \cup {"setresgid"}
                       ELSE /\ Goto("main", "jaildir")
                            /\ cred' = [cred EXCEPT !["main"] = c2]
                            /\ syscalls' = syscalls \cup {"setresgid", "setresuid"}
    /\ UNCHANGED <<foreground_, runIn, caller_owner, caller_group, owner_,
                   group_, goer, idlog, tries, exit_value,
                   failed, dirVars, loopVars>>

\* main, 3453-3454: the jail directory descriptor is constructed (its walk
\* is SpecDir); here only its outcome: it exits, or it returns after
\* creating missing components through v_mkdirat and v_fchmod.
M_JailDir ==
    /\ pc["main"] = "jaildir"
    /\ \E r \in {"found", "created", "exit1", "exit0"} :
         CASE r = "found" ->
                /\ Goto("main", action)
                /\ UNCHANGED syscalls
           [] r = "created" ->
                /\ action \in {"do_add", "do_run"}
                /\ Goto("main", action)
                /\ syscalls' = Wrapped({"mkdir", "chmod"})
           [] r = "exit1" ->
                /\ Die("main")
                /\ UNCHANGED syscalls
           [] r = "exit0" ->
                /\ action = "do_rm"
                /\ Exit("main", 0)
                /\ UNCHANGED syscalls
    /\ UNCHANGED <<cred, foreground_, runIn, caller_owner, caller_group,
                   owner_, group_, goer, idlog, tries, exit_value,
                   failed, dirVars, loopVars>>

\* main, 3457-3482: mv renames through the parent descriptor.
M_Mv ==
    /\ pc["main"] = "do_mv"
    /\ \E r \in {"ok", "badname", "disabled", "failed"} :
         IF r = "ok"
           THEN Exit("main", 0) /\ syscalls' = Wrapped({"rename"})
           ELSE /\ r = "failed" => ~dryrun
                /\ Die("main")
                /\ UNCHANGED syscalls
    /\ UNCHANGED <<cred, foreground_, runIn, caller_owner, caller_group,
                   owner_, group_, goer, idlog, tries, exit_value,
                   failed, dirVars, loopVars>>

\* main, 3485-3494: rm forks unless it runs in the foreground or dry; the
\* invoking process exits 0 and the child goes on.
M_RmFork ==
    /\ pc["main"] = "do_rm"
    /\ IF ~dryrun /\ ~foreground_
         THEN \E ok \in BOOLEAN :
                IF ok
                  THEN /\ pc' = [pc EXCEPT !["main"] = "exited",
                                           !["child"] = "rm_go"]
                       /\ exitcode' = [exitcode EXCEPT !["main"] = 0]
                       /\ cred' = [cred EXCEPT !["child"] = cred["main"]]
                       /\ goer' = "child"
                       /\ syscalls' = syscalls \cup {"fork"}
                  ELSE Die("main") /\ UNCHANGED <<cred, goer, syscalls>>
         ELSE Goto("main", "rm_go") /\ UNCHANGED <<cred, goer, syscalls>>
    /\ UNCHANGED <<foreground_, runIn, caller_owner, caller_group, owner_,
                   group_, idlog, tries, exit_value,
                   failed, dirVars, loopVars>>

\* main, 3495-3506: every mount below the jail is unmounted
\* (handle_umount), then the tree is removed (jaildirinfo::remove).
M_Rm ==
    /\ pc[goer] = "rm_go"
    /\ \E r \in {"ok", "umount_failed", "remove_failed"} :
         CASE r = "ok" ->
                /\ Exit(goer, 0)
                /\ syscalls' = Wrapped({"umount", "unlink"})
           [] r = "umount_failed" ->
                /\ ~dryrun
                /\ Die(goer)
                /\ UNCHANGED syscalls
           [] r = "remove_failed" ->
                /\ Die(goer)
                /\ syscalls' = Wrapped({"umount"})
    /\ UNCHANGED <<cred, foreground_, runIn, caller_owner, caller_group,
                   owner_, group_, goer, idlog, tries, exit_value,
                   failed, dirVars, loopVars>>

\* main, 3509-3551: skeleton and home directories (v_ensuredir, x_lchown)
\* and ownership (chown_home, chown_recursive).
M_Prepare ==
    /\ pc["main"] \in {"do_add", "do_run"}
    /\ \E ok \in BOOLEAN :
         IF ok
           THEN /\ Goto("main", "construct")
                /\ syscalls' = IF has_user THEN Wrapped({"mkdir", "chown"})
                                           ELSE syscalls
           ELSE /\ Die("main")
                /\ UNCHANGED syscalls
    /\ UNCHANGED <<cred, foreground_, runIn, caller_owner, caller_group,
                   owner_, group_, goer, idlog, tries, exit_value,
                   failed, dirVars, loopVars>>

\* The calls construct_jail makes for the lines of a manifest.
ManifestCalls ==
    {"chmod", "chown", "mkdir", "link", "unlink", "cp", "mknod", "symlink",
     "mount", "write_bindtag"}

\* The calls that report their failure through perror_fail (106-110):
\* x_lchown, x_cp_p, x_mknod, x_symlink, handle_mount; v_mkdir and
\* v_ensuredir (253-258, 267-289) return the failure and print nothing.
Reported == {"chown", "cp", "mknod", "symlink", "mount"}

\* main, 3553-3567 with construct_jail: the manifest is interpreted; every
\* call it makes goes through a v_* or x_* wrapper, the bind tag is written
\* under `if (!dryrun)` (fix_jail_bind_src, 1025-1033). The result of
\* handle_copy is dropped (1211); construct_jail returns exit_value (1215)
\* and main exits 1 when that is not 0.
M_Construct ==
    /\ pc["main"] = "construct"
    /\ \E manifest \in {"none", "ok"}
                         \cup (IF dryrun THEN {} ELSE Reported \cup {"mkdir"}) :
         CASE manifest = "none" ->
                /\ Goto("main", "exec")
                /\ UNCHANGED <<syscalls, exit_value, failed>>
           [] manifest = "ok" ->
                /\ Goto("main", "exec")
                /\ syscalls' = Wrapped(ManifestCalls)
                /\ UNCHANGED <<exit_value, failed>>
           [] OTHER ->
                /\ failed' = failed \cup {manifest}
                /\ exit_value' = (IF manifest \in Reported THEN 1 ELSE exit_value)
                /\ syscalls' = Wrapped(ManifestCalls)
                /\ IF exit_value' # 0
                     THEN Exit("main", 1)
                     ELSE Goto("main", "exec")
    /\ UNCHANGED <<cred, foreground_, runIn, caller_owner, caller_group,
                   owner_, group_, goer, idlog, tries, dirVars, loopVars>>

(***************************************************************************)
(*              SpecRun: jailownerinfo::exec and exec_go                   *)
(***************************************************************************)

\* main, 3569-3582 and jailownerinfo::exec, 2263-2383: with a command the
\* jail is entered in a clone child; in a dry run exec_clone_function is
\* called in the invoking process, which then exits 0.
M_Exec ==
    /\ pc["main"] = "exec"
    /\ IF ~has_cmd
         THEN Exit("main", 0) /\ UNCHANGED <<cred, goer, syscalls>>
         ELSE IF dryrun
           THEN /\ Goto("main", "go_mkparent")
                /\ goer' = "main"
                /\ UNCHANGED <<cred, syscalls>>
           ELSE \E ok \in BOOLEAN :
                  IF ok
                    THEN /\ pc' = [pc EXCEPT !["main"] = "exec_parent",
                                             !["child"] = "go_mkparent"]
                         /\ cred' = [cred EXCEPT !["child"] = cred["main"]]
                         /\ goer' = "child"
                         /\ syscalls' = syscalls \cup {"clone"}
                         /\ UNCHANGED exitcode
                    ELSE Die("main") /\ UNCHANGED <<cred, goer, syscalls>>
    /\ UNCHANGED <<foreground_, runIn, caller_owner, caller_group, owner_,
                   group_, idlog, tries, exit_value,
                   failed, dirVars, loopVars>>

\* jailownerinfo::exec, 2384-2406, the invoking process after clone: the
\* pid is written, stdio is closed; with --fg it takes the caller's ids
\* (results ignored) and waits, otherwise it exits 0 at once.
ExecParent ==
    /\ pc["main"] = "exec_parent"
    /\ \E pidok, ok1, ok2 \in BOOLEAN :
         LET c0 == cred["main"]
             c1 == IF ok1 /\ MaySetgid(c0, {caller_group})
                     THEN Setresgid(c0, caller_group, caller_group, caller_group)
                     ELSE c0
             c2 == IF ok2 /\ MaySetuid(c1, {caller_owner})
                     THEN Setresuid(c1, caller_owner, caller_owner, caller_owner)
                     ELSE c1
         IN IF pidfile /\ ~pidok
              THEN Die("main") /\ UNCHANGED <<cred, syscalls>>
              ELSE IF foreground_
                THEN /\ Goto("main", "exec_wait")
                     /\ cred' = [cred EXCEPT !["main"] = c2]
                     /\ syscalls' = syscalls
                            \cup (IF pidfile THEN {"write_pidfile"} ELSE {})
                            \cup (IF c1 # c0 THEN {"setresgid"} ELSE {})
                            \cup (IF c2 # c1 THEN {"setresuid"} ELSE {})
                ELSE /\ Exit("main", 0)
                     /\ syscalls' = syscalls
                            \cup (IF pidfile THEN {"write_pidfile"} ELSE {})
                     /\ UNCHANGED cred
    /\ UNCHANGED <<foreground_, runIn, caller_owner, caller_group, owner_,
                   group_, goer, idlog, tries, exit_value,
                   failed, dirVars, loopVars>>

\* exec_go, 2409-2424: the scratch mount point mnt/.parent (v_ensuredir).
Go_MkParent ==
    /\ pc[goer] = "go_mkparent"
    /\ \E ok \in BOOLEAN :
         IF ok
           THEN Goto(goer, "go_rslave") /\ syscalls' = Wrapped({"mkdir"})
           ELSE Die(goer) /\ UNCHANGED syscalls
    /\ UNCHANGED <<cred, foreground_, runIn, caller_owner, caller_group,
                   owner_, group_, goer, idlog, tries, exit_value,
                   failed, dirVars, loopVars>>

\* exec_go, 2426-2435: mount("none", "/", MS_REC | MS_SLAVE); the call is
\* made whatever dryrun is; it needs effective uid 0.
Go_Rslave ==
    /\ pc[goer] = "go_rslave"
    /\ \E ok \in BOOLEAN :
         IF ok /\ cred[goer].euid = ROOT
           THEN Goto(goer, "go_mounts") /\ syscalls' = syscalls \cup {"mount"}
           ELSE Die(goer) /\ UNCHANGED syscalls
    /\ UNCHANGED <<cred, foreground_, runIn, caller_owner, caller_group,
                   owner_, group_, goer, idlog, tries, exit_value,
                   failed, dirVars, loopVars>>

\* exec_go, 2437-2444: the delayed mounts, /proc, /dev/pts, /tmp, /run
\* through handle_mount (v_ensuredir and x_mount); a failed mount goes
\* through perror_fail, and every result is dropped.
Go_Mounts ==
    /\ pc[goer] = "go_mounts"
    /\ \E r \in {"none", "ok"} \cup (IF dryrun THEN {} ELSE {"mkdir", "mount"}) :
         /\ syscalls' = (IF r = "none" THEN syscalls
                         ELSE Wrapped({"mkdir", "mount"}))
         /\ failed' = (IF r \in {"none", "ok"} THEN failed
                       ELSE failed \cup {r})
         /\ exit_value' = (IF r \in Reported THEN 1 ELSE exit_value)
    /\ Goto(goer, "go_pivot")
    /\ UNCHANGED <<cred, foreground_, runIn, caller_owner, caller_group,
                   owner_, group_, goer, idlog, tries, dirVars, loopVars>>

\* exec_go, 2447-2478: bind mount of the jail, pivot_root, chdir, umount2,
\* each under `!dryrun`.
Go_Pivot ==
    /\ pc[goer] = "go_pivot"
    /\ IF dryrun
         THEN Goto(goer, "go_su") /\ UNCHANGED syscalls
         ELSE \E ok \in BOOLEAN :
                IF ok
                  THEN /\ Goto(goer, "go_su")
                       /\ syscalls' = syscalls \cup {"mount", "pivot_root", "umount"}
                  ELSE Die(goer) /\ UNCHANGED syscalls
    /\ UNCHANGED <<cred, foreground_, runIn, caller_owner, caller_group,
                   owner_, group_, goer, idlog, tries, exit_value,
                   failed, dirVars, loopVars>>

\* exec_go, 2494-2506: effective ids become the jail user's, root is saved.
Go_Su ==
    /\ pc[goer] = "go_su"
    /\ IF dryrun
         THEN Goto(goer, "go_pty") /\ UNCHANGED <<cred, syscalls>>
         ELSE LET c0 == cred[goer]
                  c1 == Setresgid(c0, group_, group_, ROOT)
                  c2 == Setresuid(c1, owner_, owner_, ROOT)
              IN \E ok1, ok2 \in BOOLEAN :
                   IF ~(ok1 /\ MaySetgid(c0, {group_, ROOT}))
                     THEN Die(goer) /\ UNCHANGED <<cred, syscalls>>
                     ELSE IF ~(ok2 /\ MaySetuid(c1, {owner_, ROOT}))
                       THEN /\ Die(goer)
                            /\ cred' = [cred EXCEPT ![goer] = c1]
                            /\ syscalls' = syscalls \cup {"setresgid"}
                       ELSE /\ Goto(goer, "go_pty")
                            /\ cred' = [cred EXCEPT ![goer] = c2]
                            /\ syscalls' = syscalls \cup {"setresgid", "setresuid"}
    /\ UNCHANGED <<foreground_, runIn, caller_owner, caller_group, owner_,
                   group_, goer, idlog, tries, exit_value,
                   failed, dirVars, loopVars>>

\* exec_go, 2508-2561: the pty master, chdir to the home, the shell check
\* and the ready marker, each under `!dryrun`.
Go_Pty ==
    /\ pc[goer] = "go_pty"
    /\ IF dryrun
         THEN Goto(goer, "go_fork")
         ELSE \E ok \in BOOLEAN :
                IF ok THEN Goto(goer, "go_fork") ELSE Die(goer)
    /\ UNCHANGED <<cred, foreground_, runVars, dirVars, loopVars>>

\* exec_go, 2574-2579 and 2622-2625: the payload is forked; in a dry run
\* exec_go returns 0 and exec (2369-2370) exits 0.
Go_Fork ==
    /\ pc[goer] = "go_fork"
    /\ IF dryrun
         THEN Exit(goer, 0) /\ UNCHANGED <<cred, syscalls>>
         ELSE \E ok \in BOOLEAN :
                IF ok
                  THEN /\ pc' = [pc EXCEPT ![goer] = "wb_ids",
                                           !["payload"] = "p_setresgid"]
                       /\ cred' = [cred EXCEPT !["payload"] = cred[goer]]
                       /\ syscalls' = syscalls \cup {"fork"}
                       /\ UNCHANGED exitcode
                  ELSE Die(goer) /\ UNCHANGED <<cred, syscalls>>
    /\ UNCHANGED <<foreground_, runIn, caller_owner, caller_group, owner_,
                   group_, goer, idlog, tries, exit_value,
                   failed, dirVars, loopVars>>

(***************************************************************************)
(*                    SpecRun: the forked payload                          *)
(***************************************************************************)

\* exec_go, 2594: setresgid(group_, group_, group_).
DropGids(c) == Setresgid(c, group_, group_, group_)

\* A drop that keeps root as the saved uid, as exec_go does at 2503.
DropUids_savedroot(c) == Setresuid(c, owner_, owner_, ROOT)

\* exec_go, 2597: setresuid(owner_, owner_, owner_).
DropUids(c) == Setresuid(c, owner_, owner_, owner_)

\* exec_go, 2580-2596: signals unblocked, then the group ids are dropped.
P_Setresgid ==
    /\ pc["payload"] = "p_setresgid"
    /\ \E ok \in BOOLEAN :
         IF ok /\ MaySetgid(cred["payload"], {group_})
           THEN /\ Goto("payload", "p_setresuid")
                /\ cred' = [cred EXCEPT !["payload"] = DropGids(cred["payload"])]
                /\ idlog' = Append(idlog, "gid")
           ELSE Die("payload") /\ UNCHANGED <<cred, idlog>>
    /\ UNCHANGED <<foreground_, runIn, caller_owner, caller_group, owner_,
                   group_, goer, syscalls, tries, exit_value,
                   failed, dirVars, loopVars>>

\* exec_go, 2597-2599: the user ids are dropped.
P_Setresuid ==
    /\ pc["payload"] = "p_setresuid"
    /\ \E ok \in BOOLEAN :
         IF ok /\ MaySetuid(cred["payload"], {owner_})
           THEN /\ Goto("payload", "p_session")
                /\ cred' = [cred EXCEPT !["payload"] = DropUids(cred["payload"])]
                /\ idlog' = Append(idlog, "uid")
           ELSE Die("payload") /\ UNCHANGED <<cred, idlog>>
    /\ UNCHANGED <<foreground_, runIn, caller_owner, caller_group, owner_,
                   group_, goer, syscalls, tries, exit_value,
                   failed, dirVars, loopVars>>

\* exec_go, 2600-2612 with exec_go_pty: session, pty slave, signals.
P_Session ==
    /\ pc["payload"] = "p_session"
    /\ \E ok \in BOOLEAN :
         IF ok THEN Goto("payload", "p_execve") ELSE Die("payload")
    /\ UNCHANGED <<cred, foreground_, runVars, dirVars, loopVars>>

\* exec_go, 2614-2619: execve of the shell; exit 126 when it fails.
P_Execve ==
    /\ pc["payload"] = "p_execve"
    /\ \E ok \in BOOLEAN :
         IF ok THEN Goto("payload", "execed") ELSE Exit("payload", 126)
    /\ UNCHANGED <<cred, foreground_, runVars, dirVars, loopVars>>

\* After execve (2614) the payload is arbitrary code: it may ask for any
\* ids, and gets those the kernel rules allow.
PayloadSetid ==
    /\ pc["payload"] = "execed"
    /\ tries < MaxTries
    /\ tries' = tries + 1
    /\ LET c == cred["payload"]
       IN \/ \E r, e, s \in AllUids :
               /\ MaySetuid(c, {r, e, s})
               /\ cred' = [cred EXCEPT !["payload"] = Setresuid(c, r, e, s)]
          \/ \E r, e, s \in AllGids :
               /\ MaySetgid(c, {r, e, s})
               /\ cred' = [cred EXCEPT !["payload"] = Setresgid(c, r, e, s)]
    /\ UNCHANGED <<pc, exitcode, foreground_, runIn, caller_owner,
                   caller_group, owner_, group_, goer, syscalls, idlog,
                   exit_value, failed, dirVars, loopVars>>

\* WB_Ids without the test of the results.
WB_Ids_unchecked ==
    /\ pc["child"] = "wb_ids"
    /\ LET c0 == cred["child"]
           c1 == IF MaySetuid(c0, {ROOT})
                   THEN Setresuid(c0, ROOT, ROOT, ROOT) ELSE c0
       IN \E ok2, ok3 \in BOOLEAN :
            LET c2 == IF ok2 /\ MaySetgid(c1, {caller_group})
                        THEN Setresgid(c1, caller_group, caller_group,
                                       caller_group)
                        ELSE c1
                c3 == IF ok3 /\ MaySetuid(c2, {caller_owner})
                        THEN Setresuid(c2, caller_owner, caller_owner,
                                       caller_owner)
                        ELSE c2
            IN /\ Goto("child", "loop")
               /\ cred' = [cred EXCEPT !["child"] = c3]
    /\ UNCHANGED <<foreground_, runVars, dirVars, loopVars>>

\* wait_background, 2880-2890: back to root, then to the caller; a failure
\* prints and ends in exec_done(child, 127).
WB_Ids ==
    /\ pc["child"] = "wb_ids"
    /\ LET c0 == cred["child"]
           c1 == Setresuid(c0, ROOT, ROOT, ROOT)
           c2 == Setresgid(c1, caller_group, caller_group, caller_group)
           c3 == Setresuid(c2, caller_owner, caller_owner, caller_owner)
       IN \E ok1, ok2, ok3 \in BOOLEAN :
            IF ~(ok1 /\ MaySetuid(c0, {ROOT}))
              THEN Exit("child", 127) /\ UNCHANGED cred
              ELSE IF ~(ok2 /\ MaySetgid(c1, {caller_group}))
                THEN /\ Exit("child", 127)
                     /\ cred' = [cred EXCEPT !["child"] = c1]
                ELSE IF ~(ok3 /\ MaySetuid(c2, {caller_owner}))
                  THEN /\ Exit("child", 127)
                       /\ cred' = [cred EXCEPT !["child"] = c2]
                  ELSE /\ Goto("child", "loop")
                       /\ cred' = [cred EXCEPT !["child"] = c3]
    /\ UNCHANGED <<foreground_, runVars, dirVars, loopVars>>

StrNull ==
    /\ argument = <<>>
    /\ quoted = <<>>

BufNull ==
    /\ jbuf_ = <<>>
    /\ off_ = 0
    /\ fed = <<>>
    /\ sent = <<>>

AddNull ==
    /\ disk = <<>>
    /\ kmounts = <<>>
    /\ inv = <<>>
    /\ manifest_ = <<>>
    /\ lineno = 0
    /\ frames = <<>>
    /\ hret = 0
    /\ dst_values = <<>>
    /\ devino_table = <<>>
    /\ last_parentdir = <<>>
    /\ dirtable = <<>>
    /\ mount_slots = <<>>
    /\ mount_table_populated = FALSE
    /\ delayed_mounts = <<>>
    /\ mount_status = 0
    /\ verbosefile = <<>>
    /\ mods = 0
    /\ mlog = <<>>
    /\ copied = <<>>
    /\ runs = <<>>

BindNull ==
    /\ bindpc = "none"
    /\ tagfile = <<>>
    /\ bindsrc = {}
    /\ hostfiles = {}
    /\ want_tag = ""
    /\ todo = <<>>
    /\ reported = FALSE
    /\ rebuilt = {}
    /\ binds = 0

FnNull ==
    /\ fn = "none"
    /\ fin = <<>>
    /\ fout = <<>>
    /\ BindNull

RestNull ==
    /\ StrNull
    /\ BufNull
    /\ AddNull
    /\ FnNull

RmNull ==
    /\ opt = "none"
    /\ fs = <<>>
    /\ dev = -1
    /\ procmounts = {}
    /\ mount_table = {}
    /\ visited = {}
    /\ dst_table = {}
    /\ stack = <<>>
    /\ oplog = <<>>

ConfNull ==
    /\ conf = <<>>
    /\ cdir = <<>>
    /\ called = "none"
    /\ allowed = FALSE
    /\ treedir_ = <<>>
    /\ allowance_pattern_ = <<>>

DirNull ==
    /\ dir = <<>>
    /\ permdir = <<>>
    /\ nodes = <<>>
    /\ last_pos = 0
    /\ fd = -1
    /\ parentfd = -1
    /\ dryrunning = FALSE
    /\ doforce = FALSE
    /\ opened = {}
    /\ made = {}

LoopNull ==
    /\ to_slave_ = <<>>
    /\ to_slave_off_ = 0
    /\ from_slave_ = <<>>
    /\ from_slave_off_ = 0
    /\ child_status_ = -1
    /\ got_sigterm = FALSE
    /\ timeout_ = -1
    /\ idle_timeout_ = -1
    /\ expiry_ = 0
    /\ idle_expiry_ = 0
    /\ inputfd_ = -1
    /\ stdin_tty_ = FALSE
    /\ stdout_tty_ = FALSE
    /\ stderr_tty_ = FALSE
    /\ quiet = FALSE
    /\ verbose = FALSE
    /\ now = 0
    /\ input = <<>>
    /\ outleft = 0
    /\ sigpending = FALSE
    /\ reaped = FALSE
    /\ exit_status = -1
    /\ cause = "none"
    /\ xmsg = ""
    /\ ptywritten = <<>>
    /\ inread = <<>>
    /\ nread = 0
    /\ nwritten = 0
    /\ eventsourcefd = -1
    /\ esfds_ = <<>>
    /\ conns = 0
    /\ accepted = 0
    /\ stalled = {}
    /\ outdata = <<>>
    /\ evlog = <<>>

\* The state at the entry of main: pa-jail is installed set-uid root (and
\* possibly set-gid root); jailownerinfo's members have their defaults.
RunInit ==
    /\ action \in Actions
    /\ dryrun \in BOOLEAN
    /\ has_cmd = (action = "do_run")
    /\ has_user \in (IF action = "do_run" THEN {TRUE}
                     ELSE IF action = "do_add" THEN BOOLEAN ELSE {FALSE})
    /\ pidfile \in (IF action \in {"do_add", "do_run"} THEN BOOLEAN ELSE {FALSE})
    /\ foreground_ \in (IF action = "do_mv" THEN {FALSE} ELSE BOOLEAN)
    /\ pc = [p \in Procs |-> IF p = "main" THEN "parse_user" ELSE "none"]
    /\ exitcode = [p \in Procs |-> -1]
    /\ \E cu \in CallerUids, cg \in CallerGids :
         \E eg \in {cg, ROOT} :
           cred = [p \in Procs |->
                     IF p = "main"
                       THEN [ruid |-> cu, euid |-> ROOT, suid |-> ROOT,
                             rgid |-> cg, egid |-> eg, sgid |-> eg]
                       ELSE NoCred]
    /\ caller_owner = 0
    /\ caller_group = 0
    /\ owner_ = ROOT
    /\ group_ = ROOT
    /\ goer = "main"
    /\ syscalls = {}
    /\ idlog = <<>>
    /\ tries = 0
    /\ exit_value = 0
    /\ failed = {}
    /\ DirNull
    /\ ConfNull
    /\ RmNull
    /\ LoopNull
    /\ RestNull

RunNext ==
    \/ M_ParseUser
    \/ M_Revert
    \/ M_OpenFiles
    \/ M_Escalate
    \/ M_JailDir
    \/ M_Mv
    \/ M_RmFork
    \/ M_Rm
    \/ M_Prepare
    \/ M_Construct
    \/ M_Exec
    \/ ExecParent
    \/ Go_MkParent
    \/ Go_Rslave
    \/ Go_Mounts
    \/ Go_Pivot
    \/ Go_Su
    \/ Go_Pty
    \/ Go_Fork
    \/ P_Setresgid
    \/ P_Setresuid
    \/ P_Session
    \/ P_Execve
    \/ PayloadSetid
    \/ WB_Ids

vars == <<sharedVars, runVars, dirVars, loopVars>>

SpecRun == RunInit /\ [][RunNext]_vars

(***************************************************************************)
(*                        Properties of SpecRun                            *)
(***************************************************************************)

\* C1: whenever the payload has reached execve, its real, effective and
\* saved uid are the jail user's uid, which is not 0, its real, effective
\* and saved gid are the jail user's gid, the group ids were dropped before
\* the user ids, and nothing the payload asks for afterwards gives it uid 0.
C1_PayloadIdentity ==
    pc["payload"] = "execed" =>
        /\ owner_ # ROOT
        /\ cred["payload"].ruid = owner_
        /\ cred["payload"].euid = owner_
        /\ cred["payload"].suid = owner_
        /\ cred["payload"].rgid = group_
        /\ cred["payload"].egid = group_
        /\ cred["payload"].sgid = group_
        /\ idlog = <<"gid", "uid">>

\* The payload runs as a jail user that differs from the caller and has
\* asked for other ids after execve.
C1_Witness ==
    /\ pc["payload"] = "execed"
    /\ tries > 0
    /\ owner_ # caller_owner
    /\ caller_owner # ROOT

\* C2: in a dry run of add, run, rm or mv no state-changing system call is
\* performed.
C2_DryRunPerformsNothing == dryrun => syscalls = {}

\* C14: once a mkdir, mknod, symlink, lchown, copy or mount has failed
\* while the jail was constructed, in main or in the cloned child, the
\* payload is never started and the process that met the failure exits
\* with status 1.
C14_ConstructionFailureStops ==
    failed # {} =>
      /\ pc["payload"] = "none"
      /\ pc[goer] = "exited" => exitcode[goer] = 1

\* C13: a process that leaves because clone (in exec), pivot_root or the
\* setresgid/setresuid to the jail user (in exec_go) failed exits with
\* status 127, and the payload has not been exec'd.
C13_NamespaceFailureExits127 ==
    [][\A p \in {"main", "child"} :
         (/\ pc[p] \in {"exec", "go_pivot", "go_su"}
          /\ has_cmd
          /\ ~dryrun
          /\ pc'[p] = "exited")
           => exitcode'[p] = 127 /\ pc'["payload"] = "none"]_vars

MaxDepth == 3

CompNames == <<"a", "b", "c", "d", "e">>

RECURSIVE PathOf(_)
\* check_filename(absolute(str)) followed by path_endslash, 1569-1576: an
\* absolute path, one slash between components and one at the end.
PathOf(k) == IF k = 0 THEN <<"/">> ELSE PathOf(k - 1) \o <<CompNames[k], "/">>

DirPaths == {PathOf(k) : k \in 1..MaxDepth}

\* pajailconf::set_treedir, 1343-1356: the tree directory is the jail path
\* cut after as many slashes as the matching pattern has.
TreeDirs(d) == {SubSeq(d, 1, n) : n \in {m \in 1..Len(d) : d[m] = "/"}}

\* Positions of dir (as lengths of prefixes) at which a component ends.
Ends(d) == {1} \cup {n \in 2..Len(d) :
                       d[n] # "/" /\ (n = Len(d) \/ d[n + 1] = "/")}

NoNode == [kind |-> "none", uid |-> 0, gid |-> 0, wgrp |-> FALSE, woth |-> FALSE]

\* A directory made by mkdirat(..., 0755) with effective uid and gid 0.
RootDir == [kind |-> "dir", uid |-> ROOT, gid |-> ROOT, wgrp |-> FALSE, woth |-> FALSE]

DirNodes == {RootDir,
             [RootDir EXCEPT !.wgrp = TRUE],
             [RootDir EXCEPT !.uid = 1000],
             [RootDir EXCEPT !.gid = 100, !.wgrp = TRUE],
             [RootDir EXCEPT !.woth = TRUE]}

Inodes == DirNodes \cup {NoNode, [NoNode EXCEPT !.kind = "lnk"],
                         [NoNode EXCEPT !.kind = "reg"]}

\* std::string::substr(pos, n): clipped at the end of the string.
Substr(s, pos, n) ==
    SubSeq(s, pos + 1, IF pos + n > Len(s) THEN Len(s) ELSE pos + n)

RECURSIVE ScanComponent(_, _)
\* 1598-1600: advance over the characters of the component.
ScanComponent(d, np) ==
    IF np # 0 /\ np < Len(d) /\ d[np + 1] # "/"
      THEN ScanComponent(d, np + 1)
      ELSE np

\* 1597-1603.
NextPos(d, lp) == LET np == ScanComponent(d, lp) IN IF np = 0 THEN 1 ELSE np

RECURSIVE SkipSlashes(_, _)
\* 1608-1610.
SkipSlashes(d, lp) ==
    IF lp # Len(d) /\ d[lp + 1] = "/" THEN SkipSlashes(d, lp + 1) ELSE lp

\* 1613-1615.
AllowedHere(lp) ==
    /\ permdir # <<>>
    /\ lp >= Len(permdir)
    /\ Substr(dir, 0, Len(permdir)) = permdir

\* openat(parentfd, component, O_PATH | O_CLOEXEC | O_NOFOLLOW), 1622: the
\* possible results for the component that ends at np.  "/" is absolute;
\* any other component needs a parent descriptor; a symbolic link is
\* opened itself, not followed.
OpenatResults(np) ==
    IF np # 1 /\ fd = -1 THEN {"EBADF"}
    ELSE IF nodes[np].kind = "none" THEN {"ENOENT"}
    ELSE {"ok", "EMFILE"}

\* S_ISDIR and the ownership test of 1658-1668.
StatOk(node, allowed_here, lp) ==
    /\ node.kind = "dir"
    /\ (~allowed_here /\ lp # Len(dir)) =>
          /\ node.uid = ROOT
          /\ ~((node.gid # ROOT /\ node.wgrp) \/ node.woth)

\* One iteration of the loop 1595-1670.
D_Step ==
    /\ pc["main"] = "walk"
    /\ last_pos # Len(dir)
    /\ LET np == NextPos(dir, last_pos)
           lp == SkipSlashes(dir, np)
           allowed_here == AllowedHere(lp)
       IN
       /\ parentfd' = fd
       /\ \E o \in OpenatResults(np) :
            IF o = "ENOENT" /\ ~allowed_here
              THEN \* 1623-1625: break
                   /\ Goto("main", "returned")
                   /\ fd' = -1
                   /\ last_pos' = lp
                   /\ UNCHANGED <<nodes, dryrunning, opened, made>>
            ELSE IF o # "ok" /\ (dryrunning
                                 \/ (allowed_here /\ o = "ENOENT"
                                     /\ action \in {"do_add", "do_run"}))
              THEN \* 1626-1645
                   IF dryrun
                     THEN /\ Goto("main", "walk")
                          /\ dryrunning' = TRUE
                          /\ fd' = -1
                          /\ last_pos' = lp
                          /\ UNCHANGED <<nodes, opened, made>>
                     ELSE \E mk, op, ch \in BOOLEAN :
                            IF ~mk
                              THEN /\ Exit("main", 1)
                                   /\ fd' = -1
                                   /\ UNCHANGED <<last_pos, nodes, dryrunning,
                                                  opened, made>>
                              ELSE /\ nodes' = [nodes EXCEPT ![np] = RootDir]
                                   /\ made' = made \cup {np}
                                   /\ UNCHANGED dryrunning
                                   /\ IF ~op \/ (lp = Len(dir) /\ ~ch)
                                        THEN /\ Exit("main", 1)
                                             /\ fd' = IF op THEN np ELSE -1
                                             /\ UNCHANGED <<last_pos, opened>>
                                        ELSE /\ Goto("main", "walk")
                                             /\ fd' = np
                                             /\ last_pos' = lp
                                             /\ opened' = opened \cup {np}
            ELSE IF o # "ok"
              THEN \* 1646-1651
                   /\ IF o = "ENOENT" /\ action = "do_rm" /\ doforce
                        THEN Exit("main", 0)
                        ELSE Exit("main", 1)
                   /\ fd' = -1
                   /\ UNCHANGED <<last_pos, nodes, dryrunning, opened, made>>
            ELSE \* 1653-1669
                 /\ fd' = np
                 /\ opened' = opened \cup {np}
                 /\ IF StatOk(nodes[np], allowed_here, lp)
                      THEN Goto("main", "walk") /\ last_pos' = lp
                      ELSE Die("main") /\ UNCHANGED last_pos
                 /\ UNCHANGED <<nodes, dryrunning, made>>
    /\ UNCHANGED <<cred, foreground_, runVars, dir, permdir, doforce, loopVars,
                   confVars, restVars, rmVars>>

\* 1671-1674: the loop condition fails, the constructor returns.
D_Return ==
    /\ pc["main"] = "walk"
    /\ last_pos = Len(dir)
    /\ Goto("main", "returned")
    /\ fd' = -1
    /\ UNCHANGED <<cred, foreground_, runVars, dir, permdir, nodes, last_pos,
                   parentfd, dryrunning, doforce, opened, made, loopVars,
                   confVars, restVars, rmVars>>

\* main, 3517-3541, with v_ensuredir, 267-289, for JAILDIR/home and the
\* user's home: v_ensuredir makes every directory on the path that is
\* missing, from the top down; a mkdir that fails ends in perror_die.  With
\* no USER, or under -n, nothing is made.
D_Home ==
    /\ pc["main"] = "returned"
    /\ action \in {"do_add", "do_run"}
    /\ LET missing == {n \in Ends(dir) : nodes[n].kind = "none"}
       IN  IF ~has_user \/ dryrun
           THEN /\ Goto("main", "home")
                /\ UNCHANGED <<nodes, made>>
           ELSE \E upto \in missing \cup {0} : \E homes \in BOOLEAN :
                  /\ nodes' = [n \in Ends(dir) |->
                                 IF n \in missing /\ n <= upto
                                 THEN RootDir ELSE nodes[n]]
                  /\ made' = made \cup {n \in missing : n <= upto}
                  /\ IF homes /\ \A n \in missing : n <= upto
                     THEN Goto("main", "home")
                     ELSE Exit("main", 1)
    /\ UNCHANGED <<cred, foreground_, runVars, dir, permdir, last_pos, fd,
                   parentfd, dryrunning, doforce, opened, loopVars, confVars,
                   restVars, rmVars>>

\* main, 3553-3562, with construct_jail, 1037-1042: with a manifest the
\* root of the jail is given mode 0755, which fails if it does not exist,
\* and main exits with status 1.
D_Construct ==
    /\ pc["main"] = "home"
    /\ \E has_manifest \in BOOLEAN :
         IF has_manifest /\ ~dryrun /\ nodes[Len(dir) - 1].kind # "dir"
         THEN Exit("main", 1)
         ELSE Goto("main", "constructed")
    /\ UNCHANGED <<cred, foreground_, runVars, dir, permdir, nodes, last_pos,
                   fd, parentfd, dryrunning, doforce, opened, made, loopVars,
                   confVars, restVars, rmVars>>

\* The state at 1592: main has become root (3433-3440, skipped in a dry
\* run), the policy allows the jail and has set the permission directory;
\* below a component that is missing or is no directory nothing exists.
DirInit ==
    /\ action \in Actions
    /\ dryrun \in BOOLEAN
    /\ doforce \in (IF action = "do_rm" THEN BOOLEAN ELSE {FALSE})
    /\ has_user \in (IF action \in {"do_add", "do_run"} THEN BOOLEAN
                    ELSE {FALSE})
    /\ has_cmd = FALSE
    /\ pidfile = FALSE
    /\ foreground_ = (action = "do_rm")
    /\ pc = [p \in Procs |-> IF p = "main" THEN "walk" ELSE "none"]
    /\ exitcode = [p \in Procs |-> -1]
    /\ cred = [p \in Procs |->
                 IF p = "main"
                   THEN [ruid |-> IF dryrun THEN 1000 ELSE ROOT,
                         euid |-> ROOT, suid |-> ROOT,
                         rgid |-> IF dryrun THEN 100 ELSE ROOT,
                         egid |-> ROOT, sgid |-> ROOT]
                   ELSE NoCred]
    /\ caller_owner = 1000
    /\ caller_group = 100
    /\ owner_ = ROOT
    /\ group_ = ROOT
    /\ goer = "main"
    /\ syscalls = {}
    /\ idlog = <<>>
    /\ tries = 0
    /\ exit_value = 0
    /\ failed = {}
    /\ dir \in DirPaths
    /\ permdir \in TreeDirs(dir)
    /\ nodes \in [Ends(dir) -> Inodes]
    /\ nodes[1] \in DirNodes
    /\ \A n, m \in Ends(dir) :
         (n < m /\ nodes[n].kind # "dir") => nodes[m] = NoNode
    /\ last_pos = 0
    /\ fd = -1
    /\ parentfd = -1
    /\ dryrunning = FALSE
    /\ opened = {}
    /\ made = {}
    /\ ConfNull
    /\ RmNull
    /\ LoopNull
    /\ RestNull

DirNext ==
    \/ D_Step
    \/ D_Return
    \/ D_Home
    \/ D_Construct

SpecDir == DirInit /\ [][DirNext]_vars

(***************************************************************************)
(*                        Properties of SpecDir                            *)
(***************************************************************************)

\* A component lies above the permission directory when its path, with a
\* slash at the end, is a proper prefix of permdir.
Above(n) == (IF n = 1 THEN 1 ELSE n + 1) < Len(permdir)

\* C3: whenever the constructor of the jail-directory descriptor has
\* returned, every component of the jail path above the permission
\* directory was opened without following symbolic links, is a directory,
\* is owned by root and is not writable by a non-root group or by others.
C3_AncestorsChecked ==
    pc["main"] = "returned" =>
        \A n \in Ends(dir) :
            Above(n) =>
                /\ n \in opened
                /\ nodes[n].kind = "dir"
                /\ nodes[n].uid = ROOT
                /\ ~(nodes[n].gid # ROOT /\ nodes[n].wgrp)
                /\ ~nodes[n].woth

\* C38: add and run make no directory above the permission directory, and
\* while a component of the jail path above it is missing they do not get
\* past the home directory and exit with status 1 only.
C38_NothingMadeAbovePermdir ==
    action \in {"do_add", "do_run"} =>
        /\ \A n \in made : ~Above(n)
        /\ (\E n \in Ends(dir) : Above(n) /\ nodes[n].kind = "none") =>
              /\ pc["main"] # "constructed"
              /\ pc["main"] = "exited" => exitcode["main"] = 1

(***************************************************************************)
(*        SpecLoop: jailownerinfo::wait_background and exec_done           *)
(***************************************************************************)

\* Bounds: buffer capacities (4096 and 8192 in the source), the bytes a
\* run moves (input delivered plus output of the payload), the clock.
ToSlaveCap == 2
FromSlaveCap == 3
MaxTraffic == 2
MaxTime == 3
MaxSubs == 1
EsfdCap == 2
MaxEvents == 3
MaxLines == 3

EINTR == 4
EIO == 5
EBADF == 9
EAGAIN == 11
EPIPE == 32
SIGTERM == 15
ESC == 27
ETX == 3
OtherByte == 120
STDOUT_FILENO == 1
PtyMaster == 4

\* Exit statuses of the payload as x_waitpid reports them.
PayloadStatuses == {0, 3}

\* --timeout and --idle-timeout in clock ticks; -1 is the default.
TimeoutValues == {-1, 1}
IdleValues == {-1, 1}

\* gettimeofday in jailownerinfo::exec, 2343.
StartTime == 1

\* Values an uninitialised struct timeval may hold: clear, or some time.
Garbage == {0, 1}

RECURSIVE SeqsUpTo(_, _)
SeqsUpTo(S, n) ==
    IF n = 0 THEN {<<>>}
    ELSE LET shorter == SeqsUpTo(S, n - 1)
         IN shorter \cup {Append(q, b) : q \in shorter, b \in S}

\* struct jbuffer, 1839-1851; buf_ holds the bytes buf_[0 .. tail_).
JBuffer(cap) ==
    [buf_ |-> <<>>, head_ |-> 0, tail_ |-> 0, cap_ |-> cap, bufpos_ |-> 0,
     rclosed_ |-> FALSE, wclosed_ |-> FALSE, rerrno_ |-> 0]

\* jbuffer::empty, 2032-2034.
JEmpty(j) == j.head_ = j.tail_

\* jbuffer::done, 2044-2046.
JDone_readside(j) == j.rclosed_

JDone(j) == j.rclosed_ /\ j.head_ = j.tail_

\* The bytes buf_[head_ .. tail_).
Unwritten(j) == SubSeq(j.buf_, j.head_ + 1, j.tail_)

\* Results of ::read and ::write as [nr, errno, data].
IoData(bytes) == [nr |-> Len(bytes), errno |-> 0, data |-> bytes]

IoError(e) == [nr |-> -1, errno |-> e, data |-> <<>>]

IoEof == [nr |-> 0, errno |-> 0, data |-> <<>>]

MinOf(a, b) == IF a < b THEN a ELSE b

\* jbuffer::read, 1989-2004, for one result of ::read.
JRead(j, r) ==
    IF r.nr # 0 /\ r.nr # -1
      THEN [j EXCEPT !.buf_ = @ \o r.data, !.tail_ = @ + r.nr]
    ELSE IF r.nr = 0
      THEN [j EXCEPT !.rclosed_ = TRUE]
    ELSE IF r.errno # EINTR /\ r.errno # EAGAIN
      THEN [j EXCEPT !.rclosed_ = TRUE, !.rerrno_ = r.errno]
    ELSE j

\* jbuffer::read with its guard: the buffers and return values it may give
\* when ::read may return any of `results`.
JReadOutcomes(j, from, results) ==
    IF from >= 0 /\ ~j.rclosed_ /\ j.tail_ # j.cap_
      THEN {[j |-> JRead(j, r), any |-> (r.nr # 0 /\ r.nr # -1), r |-> r] :
              r \in results}
      ELSE {[j |-> j, any |-> FALSE, r |-> IoError(EAGAIN)]}

\* consume_to without the memmove.
JConsumeTo_nomove(j, off) ==
    LET h == off - j.bufpos_
    IN IF j.tail_ >= (3 * j.cap_) \div 4
         THEN [j EXCEPT !.buf_ = SubSeq(j.buf_, 1, j.tail_ - h),
                        !.tail_ = j.tail_ - h,
                        !.bufpos_ = j.bufpos_ + h,
                        !.head_ = 0]
         ELSE [j EXCEPT !.head_ = h]

\* jbuffer::consume_to, 2021-2030.
JConsumeTo(j, off) ==
    LET h == off - j.bufpos_
    IN IF j.tail_ >= (3 * j.cap_) \div 4
         THEN [j EXCEPT !.buf_ = SubSeq(j.buf_, h + 1, j.tail_),
                        !.tail_ = j.tail_ - h,
                        !.bufpos_ = j.bufpos_ + h,
                        !.head_ = 0]
         ELSE [j EXCEPT !.head_ = h]

\* jbuffer::write, 2006-2019, for an offset the assertion accepts: buffer,
\* offset, return value and the bytes ::write took.
JWrite(j, to, off, errs) ==
    IF to >= 0 /\ ~j.wclosed_ /\ off # j.bufpos_ + j.tail_
      THEN {[j |-> j, off |-> off + nw, any |-> TRUE,
             data |-> SubSeq(j.buf_, off - j.bufpos_ + 1, off - j.bufpos_ + nw)] :
              nw \in 1..(j.bufpos_ + j.tail_ - off)}
           \cup {[j |-> IF e # EINTR /\ e # EAGAIN
                          THEN [j EXCEPT !.wclosed_ = TRUE] ELSE j,
                  off |-> off, any |-> FALSE, data |-> <<>>] : e \in errs}
      ELSE {[j |-> j, off |-> off, any |-> FALSE, data |-> <<>>]}

\* jbuffer::write, 2006-2019, followed by consume_to when it returned true
\* (2953-2956, 2972-2975): buffer, offset, return value, bytes written.
JWriteOutcomes(j, to, off, errs) ==
    IF to >= 0 /\ ~j.wclosed_ /\ off # j.bufpos_ + j.tail_
      THEN {[j |-> JConsumeTo(j, off + nw), off |-> off + nw, any |-> TRUE,
             data |-> SubSeq(j.buf_, off - j.bufpos_ + 1, off - j.bufpos_ + nw)] :
              nw \in 1..(j.bufpos_ + j.tail_ - off)}
           \cup {[j |-> IF e # EINTR /\ e # EAGAIN
                          THEN [j EXCEPT !.wclosed_ = TRUE] ELSE j,
                  off |-> off, any |-> FALSE, data |-> <<>>] : e \in errs}
      ELSE {[j |-> j, off |-> off, any |-> FALSE, data |-> <<>>]}

\* jbuffer::can_write, 2040-2042.
JCanWrite(j) == ~j.wclosed_ /\ j.head_ # j.tail_

RECURSIVE Grown(_, _)
\* jbuffer::reserve, 1978-1981: the capacity that holds `need` bytes.
Grown(cap, need) ==
    IF need > cap THEN Grown(MinOf(cap * 2, cap + 131072), need) ELSE cap

\* append without the call of reserve.
JAppend_noreserve(j, items) ==
    [j EXCEPT !.buf_ = SubSeq(j.buf_, 1, j.tail_) \o items,
              !.tail_ = j.tail_ + Len(items)]

\* jbuffer::append(first, last), 1888-1895, with reserve.
JAppend(j, items) ==
    [j EXCEPT !.buf_ = SubSeq(j.buf_, 1, j.tail_) \o items,
              !.tail_ = j.tail_ + Len(items),
              !.cap_ = IF j.cap_ - j.tail_ < Len(items)
                         THEN Grown(j.cap_, j.tail_ + Len(items))
                         ELSE j.cap_]

\* append_json_chars, 1917-1938: what follows the backslash.
Escaped(c) ==
    LET hex(n) == IF n < 10 THEN 48 + n ELSE 55 + n
    IN CASE c = 8 -> <<98>>
         [] c = 12 -> <<102>>
         [] c = 10 -> <<110>>
         [] c = 13 -> <<114>>
         [] c = 9 -> <<116>>
         [] OTHER -> IF c >= 32 THEN <<c>>
                     ELSE <<117, 48, 48, hex(c \div 16), hex(c % 16)>>

RECURSIVE AppendJsonChars(_, _, _)
\* jbuffer::append_json_chars, 1907-1972, over the bytes b with i of them
\* consumed and `out` appended so far: the appended bytes and the number
\* of bytes consumed when it returns.
AppendJsonChars(b, i, out) ==
    LET n == Len(b) - i
        c == b[i + 1]
        cont(k) == b[i + k + 1] >= 128 /\ b[i + k + 1] <= 191
        skip == AppendJsonChars(b, i + 1, Append(out, 127))
        take(k) == AppendJsonChars(b, i + k, out \o SubSeq(b, i + 1, i + k))
        stop == [out |-> out, stop |-> i]
    IN IF n = 0 THEN stop
       ELSE IF c = 0 THEN skip
       ELSE IF c < 32 \/ c = 92 \/ c = 34
         THEN AppendJsonChars(b, i + 1, out \o <<92>> \o Escaped(c))
       ELSE IF c < 128 THEN take(1)
       ELSE IF c < 194 \/ c > 244 THEN skip
       ELSE IF n = 1 THEN stop
       ELSE IF ~cont(1) THEN skip
       ELSE IF c < 224 THEN take(2)
       ELSE IF \/ c = 224 /\ b[i + 2] < 160
               \/ c = 237 /\ b[i + 2] > 159
               \/ c = 240 /\ b[i + 2] < 144
               \/ c = 244 /\ b[i + 2] > 143 THEN skip
       ELSE IF n = 2 THEN stop
       ELSE IF ~cont(2) THEN skip
       ELSE IF c < 240 THEN take(3)
       ELSE IF n = 3 THEN stop
       ELSE IF ~cont(3) THEN skip
       ELSE take(4)

\* struct esfd, 2049-2057; jbuf_ holds whole events, one per position.
NewEsfd(cfd, output_off) ==
    [fd_ |-> cfd, jbuf_ |-> JBuffer(EsfdCap), output_off_ |-> output_off,
     off_ |-> 0]

\* esfd::write_event, 2067-2076, reading jbuf.buf_ from index
\* output_off_ - bufpos_; a position before buf_[0] holds the byte g.
WriteEvent(e, j, g) ==
    LET first == e.output_off_ - j.bufpos_
        bytes == [k \in 1..(j.tail_ - first) |->
                    IF first + k >= 1 THEN j.buf_[first + k] ELSE g]
        r == AppendJsonChars(bytes, 0, <<>>)
        newoff == j.bufpos_ + first + r.stop
    IN [e EXCEPT !.jbuf_ = JAppend(e.jbuf_,
                                   <<[offset |-> e.output_off_,
                                      data |-> r.out,
                                      end_offset |-> newoff]>>),
                 !.output_off_ = newoff]

\* The event an esfd has just been given, with the subscriber and
\* from_slave_'s absolute start, head and end at that time.
LogOf(e, j) ==
    [fd |-> e.fd_, head |-> j.bufpos_ + j.head_, bufpos |-> j.bufpos_,
     last |-> j.bufpos_ + j.tail_, ev |-> e.jbuf_.buf_[e.jbuf_.tail_]]

RECURSIVE WriteEvents(_, _, _)
\* wait_background, 2965-2970: the list after the loop and the events it
\* appended.
WriteEvents(es, j, g) ==
    IF es = <<>> THEN [es |-> <<>>, log |-> <<>>]
    ELSE LET e == Head(es)
             w == WriteEvent(e, j, g)
             rest == WriteEvents(Tail(es), j, g)
         IN IF e.output_off_ < j.bufpos_ + j.tail_
              THEN [es |-> <<w>> \o rest.es, log |-> <<LogOf(w, j)>> \o rest.log]
              ELSE [es |-> <<e>> \o rest.es, log |-> rest.log]

\* exec_done, 3027: "data:{\"done\":true}".
DoneEvent == [offset |-> -1, data |-> <<>>, end_offset |-> -1]

\* jbuf_.write(fd_, off_) with consume_to, 2979-2981 and 3032-3034; a
\* stalled peer's socket gives EAGAIN only.
EsfdWriteOutcomes(e) ==
    {[e EXCEPT !.jbuf_ = o.j, !.off_ = o.off] :
       o \in {x \in JWriteOutcomes(e.jbuf_, e.fd_, e.off_, {EAGAIN, EPIPE}) :
                e.fd_ \in stalled => ~x.any /\ ~x.j.wclosed_}}

RECURSIVE EsfdsWritten(_, _)
\* The loops over esfds_ at 2978-2988 (final = FALSE) and 3031-3042
\* (final = TRUE): the lists they may leave.
EsfdsWritten(es, final) ==
    IF es = <<>> THEN {<<>>}
    ELSE {(IF e.jbuf_.wclosed_ \/ (final /\ ~JCanWrite(e.jbuf_))
             THEN <<>> ELSE <<e>>) \o rest :
            e \in EsfdWriteOutcomes(Head(es)),
            rest \in EsfdsWritten(Tail(es), final)}

\* block, 2814-2822: poll reports a waiting connection; accept gives a
\* descriptor or fails.
AcceptOutcomes ==
    IF eventsourcefd >= 0 /\ conns > 0 THEN {"accepted", "failed"}
    ELSE {"none"}

RECURSIVE HasEscEtx(_)
\* ESC immediately followed by ETX somewhere in the bytes.
HasEscEtx(bytes) ==
    /\ Len(bytes) >= 2
    /\ \/ bytes[1] = ESC /\ bytes[2] = ETX
       \/ HasEscEtx(Tail(bytes))

\* 2949-2950: memmem over buf_[head_ .. tail_).
EscapeSeen_short(j) ==
    ~JEmpty(j) /\ HasEscEtx(SubSeq(j.buf_, j.head_ + 1, j.tail_ - 1))

EscapeSeen(j) == ~JEmpty(j) /\ HasEscEtx(Unwritten(j))

\* timerisset with timercmp(&now, &t, >).
TimerPassed(t) == t # 0 /\ now > t

\* check_child_timeout, 2834-2851, after the reaping loop has stored
\* child_status (waitpid itself fails with EAGAIN or ECHILD only): the
\* status to exit with and the branch taken, -1 to go on.
CheckChildTimeout_timersfirst(child_status, waitpid) ==
    IF TimerPassed(expiry_) \/ TimerPassed(idle_expiry_)
      THEN [status |-> 124, cause |-> "timeout"]
    ELSE IF got_sigterm
      THEN [status |-> 128 + SIGTERM, cause |-> "sigterm"]
    ELSE IF child_status >= 0 /\ waitpid
      THEN [status |-> child_status, cause |-> "child"]
    ELSE [status |-> -1, cause |-> "none"]

CheckChildTimeout(child_status, waitpid) ==
    IF child_status >= 0 /\ waitpid
      THEN [status |-> child_status, cause |-> "child"]
    ELSE IF got_sigterm
      THEN [status |-> 128 + SIGTERM, cause |-> "sigterm"]
    ELSE IF TimerPassed(expiry_) \/ TimerPassed(idle_expiry_)
      THEN [status |-> 124, cause |-> "timeout"]
    ELSE [status |-> -1, cause |-> "none"]

\* What ::read(inputfd_) may return: a first part of the pending input, no
\* data yet, or end of file once the input is used up.
InputResults ==
    {IoData(SubSeq(input, 1, k)) :
        k \in 1..MinOf(Len(input), to_slave_.cap_ - to_slave_.tail_)}
    \cup {IoError(EAGAIN)}
    \cup (IF input = <<>> THEN {IoEof} ELSE {})

\* What ::read(ptymaster) may return: pending output of the payload, no
\* data yet, and once the output is used up the closed pty (EIO, or 0
\* bytes) or another error.
PtyResults ==
    {IoData(SubSeq(outdata, nread + 1, nread + k)) :
        k \in 1..MinOf(outleft, from_slave_.cap_ - from_slave_.tail_)}
    \cup {IoError(EAGAIN)}
    \cup (IF outleft = 0 THEN {IoError(EIO), IoEof, IoError(EBADF)} ELSE {})

\* exec_done's call: remember status and place, 2932, 2938, 2951.
CallExecDone(status, why) ==
    /\ pc' = [pc EXCEPT !["child"] = "exec_done"]
    /\ exit_status' = status
    /\ cause' = why
    /\ UNCHANGED exitcode

\* One iteration of the loop of wait_background, 2927-2995, with
\* check_child_timeout (2825-2852) and block (2726-2823).
WB_Iteration ==
    /\ pc["child"] = "loop"
    /\ LET newly == pc["payload"] = "exited" /\ ~reaped
           cs == IF newly THEN exitcode["payload"] ELSE child_status_
           chk == CheckChildTimeout(cs, JDone(from_slave_))
       IN
       /\ child_status_' = cs
       /\ reaped' = (reaped \/ newly)
       /\ IF chk.status # -1
            THEN /\ CallExecDone(chk.status, chk.cause)
                 /\ UNCHANGED <<to_slave_, to_slave_off_, from_slave_,
                                from_slave_off_, got_sigterm, sigpending,
                                idle_expiry_, input, outleft, ptywritten,
                                inread, nread, nwritten, esfds_, conns,
                                accepted, evlog>>
          ELSE IF from_slave_.rclosed_ /\ from_slave_.rerrno_ # EIO
            THEN /\ CallExecDone(125, "read_error")
                 /\ UNCHANGED <<to_slave_, to_slave_off_, from_slave_,
                                from_slave_off_, got_sigterm, sigpending,
                                idle_expiry_, input, outleft, ptywritten,
                                inread, nread, nwritten, esfds_, conns,
                                accepted, evlog>>
          ELSE
            \* block: the signal descriptor is drained, a connection is
            \* accepted
            /\ got_sigterm' = (got_sigterm \/ sigpending)
            /\ sigpending' = FALSE
            /\ \E acc \in AcceptOutcomes :
               \E a \in JReadOutcomes(to_slave_, inputfd_, InputResults) :
               \E fresh \in {WriteEvent(NewEsfd(eventsourcefd + 1 + accepted,
                                                 from_slave_.bufpos_
                                                   + from_slave_.head_),
                                         from_slave_, 0)} :
               LET es1 == IF acc = "accepted"
                            THEN Append(esfds_, fresh) ELSE esfds_
                   log1 == IF acc = "accepted"
                             THEN Append(evlog, LogOf(fresh, from_slave_))
                             ELSE evlog
               IN
                 /\ conns' = (IF acc = "none" THEN conns ELSE conns - 1)
                 /\ accepted' = (IF acc = "accepted"
                                   THEN accepted + 1 ELSE accepted)
                 /\ input' = SubSeq(input, Len(a.r.data) + 1, Len(input))
                 /\ inread' = inread \o a.r.data
                 /\ IF EscapeSeen(a.j)
                      THEN /\ CallExecDone(128 + SIGTERM, "escape")
                           /\ to_slave_' = a.j
                           /\ esfds_' = es1
                           /\ evlog' = log1
                           /\ UNCHANGED <<to_slave_off_, from_slave_,
                                          from_slave_off_, idle_expiry_,
                                          outleft, ptywritten, nread,
                                          nwritten>>
                      ELSE
                        \E b \in JWriteOutcomes(a.j, PtyMaster, to_slave_off_,
                                                {EAGAIN}) :
                        \E c \in JReadOutcomes(from_slave_, PtyMaster,
                                               PtyResults) :
                        \E e \in JWriteOutcomes(c.j, STDOUT_FILENO,
                                                from_slave_off_,
                                                {EAGAIN, EPIPE}) :
                        \E g \in Garbage :
                        \E w \in {IF JEmpty(c.j)
                                    THEN [es |-> es1, log |-> <<>>]
                                    ELSE WriteEvents(es1, c.j, g)} :
                        \E es3 \in EsfdsWritten(w.es, FALSE) :
                          /\ Len(log1) + Len(w.log) <= MaxEvents
                          /\ to_slave_' = b.j
                          /\ to_slave_off_' = b.off
                          /\ ptywritten' = ptywritten \o b.data
                          /\ from_slave_' = e.j
                          /\ from_slave_off_' = e.off
                          /\ outleft' = outleft - Len(c.r.data)
                          /\ nread' = nread + Len(c.r.data)
                          /\ nwritten' = nwritten + Len(e.data)
                          /\ esfds_' = es3
                          /\ evlog' = log1 \o w.log
                          /\ idle_expiry_' =
                               IF (a.any \/ b.any \/ c.any \/ e.any)
                                  /\ idle_timeout_ > 0
                                 THEN now + idle_timeout_
                                 ELSE idle_expiry_
                          /\ Goto("child", "loop")
                          /\ UNCHANGED <<exit_status, cause>>
    /\ UNCHANGED <<cred, foreground_, runVars, dirVars, loopCfg, expiry_,
                   now, xmsg, eventsourcefd, stalled, outdata>>

\* exec_done, 3002-3009: the trailing banner.
Banner_loud(status) ==
    IF status = 124 THEN "...timed out"
    ELSE IF status = 128 + SIGTERM THEN "...terminated"
    ELSE IF verbose THEN "...terminating with status"
    ELSE ""

Banner(status) ==
    IF status = 124 /\ ~quiet THEN "...timed out"
    ELSE IF status = 128 + SIGTERM /\ ~quiet THEN "...terminated"
    ELSE IF verbose THEN "...terminating with status"
    ELSE ""

\* exec_done, 2998-3028: banner to stderr and the closing event for every
\* subscriber; without subscribers the loop at 3029 ends at once and
\* exit(exit_status) follows.
ExecDone ==
    /\ pc["child"] = "exec_done"
    /\ xmsg' = Banner(exit_status)
    /\ esfds_' = [i \in 1..Len(esfds_) |->
                    [esfds_[i] EXCEPT !.jbuf_ = JAppend(esfds_[i].jbuf_,
                                                     <<DoneEvent>>)]]
    /\ IF esfds_ = <<>>
         THEN Exit("child", exit_status)
         ELSE Goto("child", "flush")
    /\ UNCHANGED <<cred, foreground_, runVars, dirVars, loopCfg, to_slave_,
                   to_slave_off_, from_slave_, from_slave_off_,
                   child_status_, got_sigterm, expiry_, idle_expiry_, now,
                   input, outleft, sigpending, reaped, exit_status, cause,
                   ptywritten, inread, nread, nwritten, eventsourcefd,
                   conns, accepted, stalled, outdata, evlog>>

\* exec_done, 3029-3048: one pass of the closing loop; it leaves through
\* exit(exit_status) when no subscriber is kept and polls otherwise.
FlushStep ==
    /\ pc["child"] = "flush"
    /\ \E es \in EsfdsWritten(esfds_, TRUE) :
         /\ esfds_' = es
         /\ IF es = <<>>
              THEN Exit("child", exit_status)
              ELSE Goto("child", "flush")
    /\ UNCHANGED <<cred, foreground_, runVars, dirVars, loopCfg, to_slave_,
                   to_slave_off_, from_slave_, from_slave_off_,
                   child_status_, got_sigterm, expiry_, idle_expiry_, now,
                   input, outleft, sigpending, reaped, exit_status, cause,
                   xmsg, ptywritten, inread, nread, nwritten, eventsourcefd,
                   conns, accepted, stalled, outdata, evlog>>

\* jailownerinfo::exec, 2392-2406: with --fg the invoking process waits for
\* the controller and exits with its status.
ExecWait ==
    /\ pc["main"] = "exec_wait"
    /\ pc["child"] = "exited"
    /\ Exit("main", exitcode["child"])
    /\ UNCHANGED <<cred, foreground_, runVars, dirVars, loopVars>>

\* The payload ends; what it wrote stays readable from the pty master.
PayloadExit ==
    /\ pc["payload"] = "execed"
    /\ pc["child"] = "loop"
    /\ \E st \in PayloadStatuses : Exit("payload", st)
    /\ UNCHANGED <<cred, foreground_, runVars, dirVars, loopVars>>

\* A SIGTERM for the controller is queued on the signal descriptor
\* (2692-2693).
Sigterm ==
    /\ pc["child"] = "loop"
    /\ ~sigpending
    /\ ~got_sigterm
    /\ sigpending' = TRUE
    /\ UNCHANGED <<sharedVars, runVars, dirVars, to_slave_, to_slave_off_,
                   from_slave_, from_slave_off_, child_status_, got_sigterm,
                   expiry_, idle_expiry_, loopCfg, now, input, outleft,
                   reaped, exit_status, cause, xmsg, ptywritten, inread,
                   nread, nwritten, subVars>>

\* gettimeofday advances; only a run that looks at the clock is affected.
Tick ==
    /\ pc["child"] = "loop"
    /\ now < MaxTime
    /\ expiry_ # 0 \/ idle_expiry_ # 0
    /\ now' = now + 1
    /\ UNCHANGED <<sharedVars, runVars, dirVars, to_slave_, to_slave_off_,
                   from_slave_, from_slave_off_, child_status_, got_sigterm,
                   expiry_, idle_expiry_, loopCfg, input, outleft,
                   sigpending, reaped, exit_status, cause, xmsg, ptywritten,
                   inread, nread, nwritten, subVars>>

\* The descriptors and terminals of a run: input from stdin or from -i,
\* nothing or everything on a terminal.
FdSetups ==
    {[inputfd |-> 0, tin |-> FALSE, tout |-> FALSE, terr |-> FALSE],
     [inputfd |-> 3, tin |-> FALSE, tout |-> FALSE, terr |-> FALSE]}

\* --fg, -q and -V as given on the command line.
Options ==
    {[fg |-> TRUE, q |-> FALSE, v |-> FALSE],
     [fg |-> FALSE, q |-> TRUE, v |-> FALSE],
     [fg |-> FALSE, q |-> FALSE, v |-> TRUE]}

\* wait_background, 2905-2913: what is closed before the loop.
Closed(j, e) == [j EXCEPT !.rclosed_ = TRUE, !.wclosed_ = TRUE, !.rerrno_ = e]

\* The state at 2927: the jail is entered, the payload runs as the jail
\* user, the controller as the caller; without --fg the invoking process
\* has left with status 0 (2403-2406).
LoopEntry ==
    /\ action = "do_run"
    /\ dryrun = FALSE
    /\ has_user = TRUE
    /\ has_cmd = TRUE
    /\ pidfile = FALSE
    /\ caller_owner = 1000
    /\ caller_group = 100
    /\ owner_ = 1001
    /\ group_ = 101
    /\ goer = "child"
    /\ syscalls = {"clone", "mount", "pivot_root", "fork"}
    /\ idlog = <<"gid", "uid">>
    /\ tries = 0
    /\ exit_value = 0
    /\ failed = {}
    /\ pc = [p \in Procs |->
               CASE p = "main" -> IF foreground_ THEN "exec_wait" ELSE "exited"
                 [] p = "child" -> "loop"
                 [] p = "payload" -> "execed"]
    /\ exitcode = [p \in Procs |->
                     IF p = "main" /\ ~foreground_ THEN 0 ELSE -1]
    /\ cred = [p \in Procs |->
                 IF p = "payload"
                   THEN [ruid |-> 1001, euid |-> 1001, suid |-> 1001,
                         rgid |-> 101, egid |-> 101, sgid |-> 101]
                   ELSE [ruid |-> 1000, euid |-> 1000, suid |-> 1000,
                         rgid |-> 100, egid |-> 100, sgid |-> 100]]
    /\ DirNull
    /\ ConfNull
    /\ RmNull
    /\ RestNull
    /\ to_slave_ = (IF inputfd_ = 0 /\ ~stdin_tty_
                      THEN Closed(JBuffer(ToSlaveCap), 0)
                      ELSE JBuffer(ToSlaveCap))
    /\ to_slave_off_ = 0
    /\ from_slave_ = (IF inputfd_ = 0 /\ ~stdout_tty_ /\ ~stderr_tty_
                        THEN Closed(JBuffer(FromSlaveCap), EIO)
                        ELSE JBuffer(FromSlaveCap))
    /\ from_slave_off_ = 0
    /\ child_status_ = -1
    /\ got_sigterm = FALSE
    /\ expiry_ = (IF timeout_ > 0 THEN StartTime + timeout_ ELSE 0)
    /\ idle_timeout_ > 0 => idle_expiry_ = StartTime + idle_timeout_
    /\ now = StartTime
    /\ sigpending = FALSE
    /\ reaped = FALSE
    /\ exit_status = -1
    /\ cause = "none"
    /\ xmsg = ""
    /\ ptywritten = <<>>
    /\ inread = <<>>
    /\ nread = 0
    /\ nwritten = 0

LoopInit ==
    /\ \E o \in Options :
         /\ foreground_ = o.fg
         /\ quiet = o.q
         /\ verbose = o.v
    /\ timeout_ \in TimeoutValues
    /\ idle_timeout_ \in IdleValues
    /\ idle_expiry_ \in Garbage \cup {StartTime + t : t \in IdleValues \ {-1}}
    /\ idle_timeout_ <= 0 => idle_expiry_ \in Garbage
    /\ \E f \in FdSetups :
         /\ inputfd_ = f.inputfd
         /\ stdin_tty_ = f.tin
         /\ stdout_tty_ = f.tout
         /\ stderr_tty_ = f.terr
    /\ input \in SeqsUpTo({ESC, ETX}, MaxTraffic)
    /\ outleft \in 0..(MaxTraffic - Len(input))
    /\ outdata = [i \in 1..outleft |-> OtherByte]
    /\ eventsourcefd = -1
    /\ esfds_ = <<>>
    /\ conns = 0
    /\ accepted = 0
    /\ stalled = {}
    /\ evlog = <<>>
    /\ LoopEntry

LoopNext ==
    \/ WB_Iteration
    \/ ExecDone
    \/ ExecWait
    \/ PayloadExit
    \/ Sigterm
    \/ Tick

SpecLoop == LoopInit /\ [][LoopNext]_vars

\* Runs without a timeout, without SIGTERM and without the escape pair in
\* the input; the timer fields happen to be clear.
DrainInit ==
    /\ LoopInit
    /\ timeout_ <= 0
    /\ idle_timeout_ <= 0
    /\ idle_expiry_ = 0
    /\ ~HasEscEtx(input)

DrainNext ==
    \/ WB_Iteration
    \/ ExecDone
    \/ ExecWait
    \/ PayloadExit

\* The controller and the invoker are running processes: a step of theirs
\* that changes the state is eventually taken while it stays possible.
SpecDrain ==
    /\ DrainInit
    /\ [][DrainNext]_vars
    /\ WF_vars(WB_Iteration)
    /\ WF_vars(ExecDone)
    /\ WF_vars(ExecWait)

(***************************************************************************)
(*              SpecSub: the controller with --event-source                *)
(***************************************************************************)

\* A client connects to the socket of --event-source.
Connect ==
    /\ pc["child"] = "loop"
    /\ eventsourcefd >= 0
    /\ accepted + conns < MaxSubs
    /\ conns' = conns + 1
    /\ UNCHANGED <<sharedVars, runVars, dirVars, to_slave_, to_slave_off_,
                   from_slave_, from_slave_off_, child_status_, got_sigterm,
                   expiry_, idle_expiry_, loopCfg, now, input, outleft,
                   sigpending, reaped, exit_status, cause, xmsg, ptywritten,
                   inread, nread, nwritten, eventsourcefd, esfds_, accepted,
                   stalled, outdata, evlog>>

\* A subscriber stops reading its socket without closing it.
Stall ==
    /\ pc["child"] \in {"loop", "exec_done", "flush"}
    /\ \E i \in 1..Len(esfds_) :
         /\ esfds_[i].fd_ \notin stalled
         /\ stalled' = stalled \cup {esfds_[i].fd_}
    /\ UNCHANGED <<sharedVars, runVars, dirVars, to_slave_, to_slave_off_,
                   from_slave_, from_slave_off_, child_status_, got_sigterm,
                   expiry_, idle_expiry_, loopCfg, now, input, outleft,
                   sigpending, reaped, exit_status, cause, xmsg, ptywritten,
                   inread, nread, nwritten, eventsourcefd, esfds_, conns,
                   accepted, outdata, evlog>>

RECURSIVE PtyStreams(_)
\* What the payload writes: the streams of at most n bytes made of plain
\* bytes and whole two-byte UTF-8 characters.
PtyStreams(n) ==
    IF n = 0 THEN {<<>>}
    ELSE LET shorter == PtyStreams(n - 1)
         IN shorter \cup {x \in {q \o u : q \in shorter,
                                         u \in {<<120>>, <<195, 169>>}} :
                             Len(x) <= n}

\* A run with --event-source on a terminal, input from a closed stdin, no
\* timeout: the controller at 2927 with the socket listening.
SubInit ==
    /\ foreground_ = TRUE
    /\ quiet = FALSE
    /\ verbose = FALSE
    /\ timeout_ = -1
    /\ idle_timeout_ = -1
    /\ idle_expiry_ = 0
    /\ inputfd_ = 0
    /\ stdin_tty_ = FALSE
    /\ stdout_tty_ = TRUE
    /\ stderr_tty_ = TRUE
    /\ input = <<>>
    /\ outdata \in PtyStreams(MaxTraffic + 1)
    /\ outleft = Len(outdata)
    /\ eventsourcefd = 5
    /\ esfds_ = <<>>
    /\ conns = 0
    /\ accepted = 0
    /\ stalled = {}
    /\ evlog = <<>>
    /\ LoopEntry

SubNext ==
    \/ WB_Iteration
    \/ ExecDone
    \/ FlushStep
    \/ ExecWait
    \/ PayloadExit
    \/ Connect
    \/ Stall

\* The controller and the invoker are running processes; the clients and
\* the payload are not obliged to do anything.
SpecSub ==
    /\ SubInit
    /\ [][SubNext]_vars
    /\ WF_vars(WB_Iteration)
    /\ WF_vars(ExecDone)
    /\ WF_vars(FlushStep)
    /\ WF_vars(ExecWait)

(***************************************************************************)
(*                        Properties of SpecLoop                           *)
(***************************************************************************)

\* The controller has left the loop through check_child_timeout.
ViaCheck ==
    /\ pc["child"] \in {"exec_done", "exited"}
    /\ cause \in {"child", "sigterm", "timeout"}

Expired == TimerPassed(expiry_) \/ TimerPassed(idle_expiry_)

ChildDone ==
    /\ child_status_ >= 0
    /\ from_slave_.rclosed_
    /\ from_slave_.head_ = from_slave_.tail_

\* C4 as stated: of the termination causes that hold at an evaluation the
\* controller takes the first of: timer expiry (124), SIGTERM received
\* (143), child exit (the child's code).
C4_TimersFirst ==
    ViaCheck =>
        exit_status = (IF Expired THEN 124
                       ELSE IF got_sigterm THEN 128 + SIGTERM
                       ELSE child_status_)

\* C4, amended: of the termination causes that hold at an evaluation the
\* controller takes the first of: child reaped with its output drained
\* (the child's code), SIGTERM received (143), wall-clock or idle expiry
\* (124).
C4_ChildFirst ==
    ViaCheck =>
        /\ exit_status = (IF ChildDone THEN child_status_
                          ELSE IF got_sigterm THEN 128 + SIGTERM
                          ELSE 124)
        /\ (~ChildDone /\ ~got_sigterm) => Expired

\* All three causes hold at the evaluation that ends the loop.
C4_Witness ==
    /\ ViaCheck
    /\ ChildDone
    /\ got_sigterm
    /\ TimerPassed(expiry_)
    /\ exit_status = 3

\* C5: a run given neither --timeout nor --idle-timeout never exits 124
\* and never prints the timed-out banner, and a payload that exits 0 makes
\* the controller exit 0.
C5_NoTimeoutNo124 ==
    (timeout_ <= 0 /\ idle_timeout_ <= 0) =>
        /\ exit_status # 124
        /\ xmsg # "...timed out"
        /\ (cause = "child" /\ exitcode["payload"] = 0) => exit_status = 0

\* C6 as stated: once ESC immediately followed by ETX has been read from
\* the input descriptor, however the bytes were split over the reads, the
\* controller has ended the loop with status 143 and the pair has not been
\* written to the pty master.
C6_PairAlwaysCaught ==
    HasEscEtx(inread) =>
        /\ pc["child"] \in {"exec_done", "exited"}
        /\ exit_status = 128 + SIGTERM
        /\ ~HasEscEtx(ptywritten)

\* C6, amended: whenever the bytes of to_slave_ that are not yet written
\* to the pty master contain ESC immediately followed by ETX, the
\* controller has ended the loop with status 143 in the iteration that
\* read them, and it ends the loop for the pair only in that case, so the
\* ETX of a detected pair is never written.
C6_PairInBufferCaught ==
    /\ HasEscEtx(Unwritten(to_slave_)) =>
          /\ pc["child"] \in {"exec_done", "exited"}
          /\ cause = "escape"
    /\ cause = "escape" =>
          /\ exit_status = 128 + SIGTERM
          /\ HasEscEtx(Unwritten(to_slave_))
          /\ ~HasEscEtx(ptywritten)

\* ESC and ETX were read while the pty master had taken nothing yet, and
\* the loop ended for the pair.
C6_Witness ==
    /\ cause = "escape"
    /\ pc["child"] = "exited"
    /\ inread = <<ESC, ETX>>
    /\ ptywritten = <<>>
    /\ exitcode["child"] = 128 + SIGTERM

\* The wall-clock timeout ended the loop while the payload was running.
TimedOutRun ==
    /\ cause = "timeout"
    /\ timeout_ > 0
    /\ TimerPassed(expiry_)
    /\ pc["payload"] = "execed"
    /\ pc["child"] = "exited"

\* C7 as stated: when the wall-clock timeout expires while the payload is
\* running, the invoker of pa-jail gets exit status 124 and the timed-out
\* banner is written, with --fg and without.
C7_InvokerGets124 ==
    (TimedOutRun /\ pc["main"] = "exited") =>
        /\ exitcode["main"] = 124
        /\ xmsg = "...timed out"

\* C7, amended: when the wall-clock timeout expires while the payload is
\* running, the controller exits 124 and writes the timed-out banner
\* unless -q is given; the invoker gets 124 with --fg and 0 without.
C7_ControllerGets124 ==
    TimedOutRun =>
        /\ exitcode["child"] = 124
        /\ (xmsg = "...timed out") <=> ~quiet
        /\ pc["main"] = "exited" =>
              exitcode["main"] = (IF foreground_ THEN 124 ELSE 0)

\* A foreground run has timed out and the invoker has collected 124.
C7_Witness ==
    /\ TimedOutRun
    /\ foreground_
    /\ pc["main"] = "exited"
    /\ xmsg = "...timed out"

\* C8: the controller exits with the payload's status only when the pty
\* read side is closed and every byte read from the pty master has been
\* written to stdout; a status reaped earlier is kept while the loop goes
\* on.
C8_ChildStatusAfterDrain ==
    /\ cause = "child" =>
          /\ from_slave_.rclosed_
          /\ from_slave_.head_ = from_slave_.tail_
          /\ nwritten = nread
          /\ exit_status = exitcode["payload"]
    /\ child_status_ >= 0 => child_status_ = exitcode["payload"]

\* The payload's status is returned after its output went through.
C8_Witness ==
    /\ cause = "child"
    /\ pc["child"] = "exited"
    /\ nwritten > 1
    /\ exit_status = 3
    /\ from_slave_.bufpos_ > 0

\* The payload has ended and the pty master has reported it closed.
PtyClosedAfterExit ==
    /\ pc["payload"] = "exited"
    /\ from_slave_.rclosed_
    /\ from_slave_.rerrno_ = EIO

\* C9: once the payload has ended and the pty is closed, with no timeout
\* and no SIGTERM, the controller eventually exits with the payload's
\* status, whatever stdout does.
C9_ControllerExits ==
    [](PtyClosedAfterExit =>
          <>(pc["child"] = "exited" /\ exitcode["child"] = exitcode["payload"]))

\* C10: the controller exits 125 only after a read from the pty master
\* failed with an errno other than EIO, EINTR and EAGAIN; end of file never
\* leads to 125.
C10_Exit125AfterReadError ==
    exit_status = 125 => from_slave_.rerrno_ \notin {0, EIO, EINTR, EAGAIN}


(***************************************************************************)
(*                        Properties of SpecSub                            *)
(***************************************************************************)

\* C11: once exec_done has been called with a status, the controller
\* exits with that status after finitely many passes of the closing loop,
\* whatever the subscribers do.
C11_ExitAfterCause ==
    (pc["child"] \in {"exec_done", "flush"})
      ~> (pc["child"] = "exited" /\ exitcode["child"] = exit_status)


RECURSIVE JsonUnescape(_)
\* What a JSON reader makes of the characters append_json_chars wrote
\* (the inverse of 1917-1938).
JsonUnescape(d) ==
    IF d = <<>> THEN <<>>
    ELSE IF d[1] # 92 THEN <<d[1]>> \o JsonUnescape(Tail(d))
    ELSE LET c == d[2]
             unhex(h) == IF h >= 65 THEN h - 55 ELSE h - 48
         IN IF c = 117
              THEN <<unhex(d[5]) * 16 + unhex(d[6])>>
                     \o JsonUnescape(SubSeq(d, 7, Len(d)))
              ELSE <<CASE c = 98 -> 8
                       [] c = 102 -> 12
                       [] c = 110 -> 10
                       [] c = 114 -> 13
                       [] c = 116 -> 9
                       [] OTHER -> c>>
                     \o JsonUnescape(SubSeq(d, 3, Len(d)))

\* C12: for every subscriber (here: the output is well-formed UTF-8 and
\* the subscriber was accepted between two characters), the first event
\* starts at from_slave_'s absolute head at accept time, every later event
\* starts where the previous one ended, offsets never decrease, and the
\* unescaped data of its events is exactly the pty output between the
\* first offset and the last end_offset.
C12_EventsCarryOutput ==
    LET RECURSIVE DataOf(_)
        DataOf(evs) == IF evs = <<>> THEN <<>>
                       ELSE JsonUnescape(evs[1].ev.data) \o DataOf(Tail(evs))
        OnCharBoundary(off) ==
            off < Len(outdata)
              => outdata[off + 1] < 128 \/ outdata[off + 1] > 191
    IN \A f \in {evlog[k].fd : k \in 1..Len(evlog)} :
         LET evs == SelectSeq(evlog, LAMBDA l : l.fd = f)
         IN OnCharBoundary(evs[1].head) =>
            /\ evs[1].ev.offset = evs[1].head
            /\ \A k \in 2..Len(evs) :
                 evs[k].ev.offset = evs[k - 1].ev.end_offset
            /\ \A k \in 1..Len(evs) : evs[k].ev.offset <= evs[k].ev.end_offset
            /\ DataOf(evs) = SubSeq(outdata, evs[1].ev.offset + 1,
                                    evs[Len(evs)].ev.end_offset)


(***************************************************************************)
(*                    SpecConf: the policy file's rules                     *)
(***************************************************************************)

\* 131-137
path_endslash(path) ==
    IF path = <<>> \/ path[Len(path)] # "/" THEN path \o <<"/">> ELSE path

\* 1309-1314: the word is the prefix followed by the type, nothing else.
check_action(word, prefix, type) == word = prefix \o type

RECURSIVE fnmatch(_, _, _)
\* fnmatch(3) with FNM_PATHNAME | FNM_PERIOD, as called at 1339-1340, for
\* patterns of ordinary characters and '*'; TRUE stands for the result 0.
\* lead: str is at the start of the string or just after a '/'.
fnmatch(pattern, str, lead) ==
    IF pattern = <<>> THEN str = <<>>
    ELSE IF pattern[1] = "*"
    THEN /\ ~(lead /\ str # <<>> /\ str[1] = ".")
         /\ \/ fnmatch(Tail(pattern), str, lead)
            \/ /\ str # <<>>
               /\ str[1] # "/"
               /\ fnmatch(pattern, Tail(str), FALSE)
    ELSE /\ str # <<>>
         /\ str[1] = pattern[1]
         /\ fnmatch(Tail(pattern), Tail(str), pattern[1] = "/")

\* check_dirmatch without the cut at 1320-1337.
check_dirmatch_uncut(pattern, str, superdir) ==
    [match |-> fnmatch(pattern, str, TRUE), superdir |-> str]

\* 1316-1341: with superdir, str is first cut after as many slashes as the
\* pattern has; the cut string is what store_superdir receives.
check_dirmatch(pattern, str, superdir) ==
    LET n == Cardinality({i \in DOMAIN pattern : pattern[i] = "/"})
        at == {i \in DOMAIN str : str[i] = "/"}
        cut == IF n = 0 THEN 0
               ELSE CHOOSE i \in at : Cardinality({j \in at : j <= i}) = n
    IN IF superdir /\ Cardinality(at) < n
         THEN [match |-> FALSE, superdir |-> <<>>]
         ELSE LET s == IF superdir THEN SubSeq(str, 1, cut) ELSE str
              IN [match |-> fnmatch(pattern, s, TRUE), superdir |-> s]

\* set_treedir without the comparison of lengths.
set_treedir_latest(treedir, pattern, str, is_explicit) ==
    LET n == Len(pattern)
        p == IF ~is_explicit /\ n > 3
                  /\ SubSeq(pattern, n - 2, n) = <<"/", "*", "/">>
               THEN SubSeq(pattern, 1, n - 2)
               ELSE pattern
        m == check_dirmatch(p, str, TRUE)
    IN IF m.match THEN m.superdir ELSE treedir

\* 1343-1356; the value is the new treedir_.
set_treedir(treedir, pattern, str, is_explicit) ==
    LET n == Len(pattern)
        p == IF ~is_explicit /\ n > 3
                  /\ SubSeq(pattern, n - 2, n) = <<"/", "*", "/">>
               THEN SubSeq(pattern, 1, n - 2)
               ELSE pattern
        m == check_dirmatch(p, str, TRUE)
    IN IF m.match /\ (treedir = <<>> \/ Len(treedir) > Len(m.superdir))
         THEN m.superdir
         ELSE treedir

\* 1371-1412, the body of the loop for the line ln.  s holds
\* allowed_globally (g), allowed_locally (l), allowance_pattern_ (pat) and
\* treedir_ (tree); d is the directory with its slash.
allows_line(s, ln, type, d, superdir) ==
    LET enabled == IF \/ check_action(ln.action, "disable", type)
                      \/ check_action(ln.action, "no", type)
                     THEN 0
                   ELSE IF \/ check_action(ln.action, "enable", type)
                           \/ check_action(ln.action, "allow", type)
                     THEN 1
                   ELSE -1
        pattern == path_endslash(ln.arg)
    IN IF enabled = -1
         THEN IF /\ check_action(ln.action, "treedir", "")
                 /\ ln.arg # <<>>
                 /\ ln.arg[1] = "/"
                THEN [s EXCEPT !.tree = set_treedir(s.tree, pattern, d, TRUE)]
                ELSE s
       ELSE IF ln.arg = <<>>
         THEN [g |-> enabled,
               l |-> IF enabled = 0 THEN 0 ELSE s.l,
               pat |-> <<>>,
               tree |-> s.tree]
       ELSE IF /\ ln.arg[1] = "/"
               /\ check_dirmatch(pattern, d, superdir \/ enabled <= 0).match
         THEN [g |-> s.g,
               l |-> enabled,
               pat |-> pattern,
               tree |-> IF enabled > 0
                          THEN set_treedir(s.tree, pattern, d, FALSE)
                          ELSE s.tree]
       ELSE s

\* allows_type reading the lines from the last to the first.
allows_type_backwards(lns, type, path, superdir) ==
    LET RECURSIVE Loop(_, _)
        Loop(s, k) ==
            IF k < 1 THEN s
            ELSE Loop(allows_line(s, lns[k], type, path_endslash(path),
                                  superdir), k - 1)
        end == Loop([g |-> -1, l |-> -1, pat |-> <<>>, tree |-> <<>>], Len(lns))
    IN [ret |-> end.g # 0 /\ end.l > 0,
        treedir_ |-> end.tree,
        allowance_pattern_ |-> end.pat]

\* allows_type returning allowed_locally > 0 alone.
allows_type_localonly(lns, type, path, superdir) ==
    LET RECURSIVE Loop(_, _)
        Loop(s, k) ==
            IF k > Len(lns) THEN s
            ELSE Loop(allows_line(s, lns[k], type, path_endslash(path),
                                  superdir), k + 1)
        end == Loop([g |-> -1, l |-> -1, pat |-> <<>>, tree |-> <<>>], 1)
    IN [ret |-> end.l > 0,
        treedir_ |-> end.tree,
        allowance_pattern_ |-> end.pat]

\* 1358-1415 over the lines lns: the return value and the two members the
\* call leaves behind.
allows_type(lns, type, path, superdir) ==
    LET RECURSIVE Loop(_, _)
        Loop(s, k) ==
            IF k > Len(lns) THEN s
            ELSE Loop(allows_line(s, lns[k], type, path_endslash(path),
                                  superdir), k + 1)
        end == Loop([g |-> -1, l |-> -1, pat |-> <<>>, tree |-> <<>>], 1)
    IN [ret |-> end.g # 0 /\ end.l > 0,
        treedir_ |-> end.tree,
        allowance_pattern_ |-> end.pat]

\* One query of the policy, allows_type called with these arguments; the
\* rules are read again from the start on every query.
Query(name, type, superdir) ==
    /\ pc["main"] = "policy"
    /\ \E r \in {allows_type(conf, type, cdir, superdir)} :
         /\ called' = name
         /\ allowed' = r.ret
         /\ treedir_' = r.treedir_
         /\ allowance_pattern_' = r.allowance_pattern_
    /\ UNCHANGED <<sharedVars, runVars, dir, permdir, nodes, last_pos, fd,
                   parentfd, dryrunning, doforce, opened, made, conf, cdir,
                   rmVars, restVars, loopVars>>

\* Lines of a policy file, as the tester's files at 1420-1492 combine them:
\* rules without a pattern, allow and disable patterns of one to three
\* components, tree directories that match and that do not.
ConfLines ==
    {[action |-> "disablejail", arg |-> <<>>],
     [action |-> "enablejail", arg |-> <<>>],
     [action |-> "enablejail", arg |-> <<"/", "j", "/", "*">>],
     [action |-> "allowjail", arg |-> <<"/", "j", "/", "a">>],
     [action |-> "enablejail", arg |-> <<"/", "j", "/", "*", "/", "*">>],
     [action |-> "disablejail", arg |-> <<"/", "j", "/", "a">>],
     [action |-> "nojail", arg |-> <<"/", "j">>],
     [action |-> "treedir", arg |-> <<"/", "j", "/", "a">>],
     [action |-> "treedir", arg |-> <<"/", "j">>],
     [action |-> "treedir", arg |-> <<"/", "k">>],
     [action |-> "disableskeleton", arg |-> <<>>],
     [action |-> "enableskeleton", arg |-> <<"/", "j", "/", "*">>]}

RECURSIVE ConfFiles(_)
\* The policy files of at most n lines.
ConfFiles(n) ==
    IF n = 0 THEN {<<>>}
    ELSE LET shorter == ConfFiles(n - 1)
         IN shorter \cup {Append(f, ln) : f \in shorter, ln \in ConfLines}

\* The directories asked about: a pattern's parent, matching directories,
\* one with a leading period, one below a matching one; each also with a
\* trailing slash.
ConfDirs ==
    LET plain == {<<"/", "j">>,
                  <<"/", "j", "/", "a">>,
                  <<"/", "j", "/", "b">>,
                  <<"/", "j", "/", ".", "a">>,
                  <<"/", "j", "/", "a", "/", "b">>}
    IN plain \cup {d \o <<"/">> : d \in plain}

\* The state after pajailconf's constructor (1262-1291) has read the file:
\* no query has been made.
ConfInit ==
    /\ action = "do_add"
    /\ dryrun = FALSE
    /\ has_user = FALSE
    /\ has_cmd = FALSE
    /\ pidfile = FALSE
    /\ foreground_ = FALSE
    /\ pc = [p \in Procs |-> IF p = "main" THEN "policy" ELSE "none"]
    /\ exitcode = [p \in Procs |-> -1]
    /\ cred = [p \in Procs |->
                 IF p = "main"
                   THEN [ruid |-> ROOT, euid |-> ROOT, suid |-> ROOT,
                         rgid |-> ROOT, egid |-> ROOT, sgid |-> ROOT]
                   ELSE NoCred]
    /\ caller_owner = 1000
    /\ caller_group = 100
    /\ owner_ = ROOT
    /\ group_ = ROOT
    /\ goer = "main"
    /\ syscalls = {}
    /\ idlog = <<>>
    /\ tries = 0
    /\ exit_value = 0
    /\ failed = {}
    /\ conf \in ConfFiles(MaxLines)
    /\ cdir \in ConfDirs
    /\ called = "none"
    /\ allowed = FALSE
    /\ treedir_ = <<>>
    /\ allowance_pattern_ = <<>>
    /\ DirNull
    /\ RmNull
    /\ LoopNull
    /\ RestNull

\* 1225-1233: allow_jail, allow_jail_subdir, allow_skeleton.
ConfNext ==
    \/ Query("allow_jail", "jail", FALSE)
    \/ Query("allow_jail_subdir", "jail", TRUE)
    \/ Query("allow_skeleton", "skeleton", FALSE)

SpecConf == ConfInit /\ [][ConfNext]_vars

(***************************************************************************)
(*                        Properties of SpecConf                           *)
(***************************************************************************)

\* C15 as stated: when the file holds a disable<kind> or no<kind> rule
\* without a pattern at any position, a query of that kind returns false.
C15_DisableAnywhereIsFinal ==
    called # "none" =>
      LET type == IF called = "allow_skeleton" THEN "skeleton" ELSE "jail"
      IN (\E k \in DOMAIN conf :
            /\ conf[k].arg = <<>>
            /\ conf[k].action \in {"disable" \o type, "no" \o type})
           => ~allowed

\* C15: when the last rule of the kind without a pattern is a disable<kind>
\* or no<kind> rule, a query of that kind returns false for every
\* directory, whatever rules with patterns stand before or after it.
C15_LastGlobalRuleDisables ==
    called # "none" =>
      LET type == IF called = "allow_skeleton" THEN "skeleton" ELSE "jail"
          off == {"disable" \o type, "no" \o type}
          on == {"enable" \o type, "allow" \o type}
          globals == {k \in DOMAIN conf :
                        conf[k].arg = <<>> /\ conf[k].action \in off \cup on}
      IN (\E k \in globals :
            /\ \A j \in globals : j <= k
            /\ conf[k].action \in off)
           => ~allowed

\* A pattern-less enablejail, then a pattern-less disablejail, then an
\* allow pattern that matches the directory: the query is refused.
C15_Witness ==
    /\ called = "allow_jail"
    /\ ~allowed
    /\ Len(conf) = 3
    /\ conf[1] = [action |-> "enablejail", arg |-> <<>>]
    /\ conf[2] = [action |-> "disablejail", arg |-> <<>>]
    /\ conf[3].action = "enablejail"
    /\ conf[3].arg # <<>>
    /\ check_dirmatch(path_endslash(conf[3].arg), path_endslash(cdir),
                      FALSE).match

\* C16 as stated: when a disablejail rule with a pattern matches the
\* directory or one of its ancestors and no matching allowjail pattern has
\* more components than it, allow_jail is false, in whatever order the
\* rules stand.
C16_DisableBeatsAllowAnyOrder ==
    called = "allow_jail" =>
      LET d == path_endslash(cdir)
          pat(k) == path_endslash(conf[k].arg)
          ncomp(q) == Cardinality({i \in DOMAIN q : q[i] = "/"})
          dis == {k \in DOMAIN conf :
                    /\ conf[k].action \in {"disablejail", "nojail"}
                    /\ conf[k].arg # <<>>
                    /\ \E i \in DOMAIN d :
                         d[i] = "/" /\ fnmatch(pat(k), SubSeq(d, 1, i), TRUE)}
          alw == {k \in DOMAIN conf :
                    /\ conf[k].action \in {"enablejail", "allowjail"}
                    /\ conf[k].arg # <<>>
                    /\ fnmatch(pat(k), d, TRUE)}
      IN (\E k \in dis : \A j \in alw : ncomp(pat(j)) <= ncomp(pat(k)))
           => ~allowed

\* C16: among the rules with a pattern, the last one that matches decides:
\* when it is a disablejail rule (matching the directory or one of its
\* ancestors), allow_jail is false, whatever matching allow rules precede.
C16_LastMatchingRuleDecides ==
    called = "allow_jail" =>
      LET d == path_endslash(cdir)
          pat(k) == path_endslash(conf[k].arg)
          dis == {k \in DOMAIN conf :
                    /\ conf[k].action \in {"disablejail", "nojail"}
                    /\ conf[k].arg # <<>>
                    /\ \E i \in DOMAIN d :
                         d[i] = "/" /\ fnmatch(pat(k), SubSeq(d, 1, i), TRUE)}
          alw == {k \in DOMAIN conf :
                    /\ conf[k].action \in {"enablejail", "allowjail"}
                    /\ conf[k].arg # <<>>
                    /\ fnmatch(pat(k), d, TRUE)}
      IN (\E k \in dis : \A j \in dis \cup alw : j <= k) => ~allowed

\* An allow pattern that matches the directory, then a disable pattern that
\* matches its parent: refused.
C16_Witness ==
    /\ called = "allow_jail"
    /\ ~allowed
    /\ cdir = <<"/", "j", "/", "a">>
    /\ conf = <<[action |-> "enablejail", arg |-> <<"/", "j", "/", "*">>],
                [action |-> "nojail", arg |-> <<"/", "j">>]>>
    /\ allowance_pattern_ = <<"/", "j", "/">>

\* C17: in a file without disablejail and nojail rules, (1) allow_jail(d)
\* is true only if an allow pattern matches d as a whole, and then d has as
\* many components as the pattern ('*' does not match across a '/'), so the
\* parent of a matching directory and a directory below one are refused;
\* (2) allow_jail_subdir(d) is true when the first k components of d match
\* an allow pattern of k components; (3) both answer alike for d with and
\* without a trailing slash.
C17_WholeMatchAndSubdir ==
    (/\ called \in {"allow_jail", "allow_jail_subdir"}
     /\ \A k \in DOMAIN conf : conf[k].action \notin {"disablejail", "nojail"})
      =>
      LET d == IF cdir[Len(cdir)] = "/" THEN cdir ELSE cdir \o <<"/">>
          other == IF cdir[Len(cdir)] = "/"
                     THEN SubSeq(cdir, 1, Len(cdir) - 1)
                     ELSE cdir \o <<"/">>
          ncomp(q) == Cardinality({i \in DOMAIN q : q[i] = "/"})
          pats == {conf[k].arg \o <<"/">> : k \in
                     {j \in DOMAIN conf :
                        /\ conf[j].action \in {"enablejail", "allowjail"}
                        /\ conf[j].arg # <<>>}}
      IN /\ (called = "allow_jail" /\ allowed)
              => \E q \in pats : ncomp(q) = ncomp(d) /\ fnmatch(q, d, TRUE)
         /\ (/\ called = "allow_jail_subdir"
             /\ \E q \in pats : \E i \in DOMAIN d :
                  /\ d[i] = "/"
                  /\ ncomp(SubSeq(d, 1, i)) = ncomp(q)
                  /\ fnmatch(q, SubSeq(d, 1, i), TRUE))
              => allowed
         /\ allowed = allows_type(conf, "jail", other,
                                  called = "allow_jail_subdir").ret

\* A directory below a matching one: allow_jail_subdir accepts it,
\* allow_jail refuses it and refuses the parent of the matching directory.
C17_Witness ==
    /\ called = "allow_jail_subdir"
    /\ allowed
    /\ cdir = <<"/", "j", "/", "a", "/", "b">>
    /\ conf = <<[action |-> "enablejail", arg |-> <<"/", "j", "/", "*">>]>>
    /\ ~allows_type(conf, "jail", cdir, FALSE).ret
    /\ ~allows_type(conf, "jail", <<"/", "j">>, FALSE).ret
    /\ allows_type(conf, "jail", <<"/", "j", "/", "a">>, FALSE).ret

\* C18 as stated: after allow_jail has returned true, when an explicit
\* treedir rule matches a leading part of the directory, treedir() is a
\* part matched by an explicit rule.
C18_ExplicitTreedirWins ==
    (called = "allow_jail" /\ allowed) =>
      LET d == path_endslash(cdir)
          parts(q) == {SubSeq(d, 1, i) : i \in
                         {j \in DOMAIN d :
                            d[j] = "/" /\ fnmatch(q, SubSeq(d, 1, j), TRUE)}}
          expl == UNION {parts(path_endslash(conf[k].arg)) : k \in
                           {j \in DOMAIN conf : conf[j].action = "treedir"}}
      IN expl # {} => treedir_ \in expl

\* C18: after allow_jail has returned true, treedir() is the shortest of
\* the leading parts of the directory matched by an explicit treedir rule
\* and of those implied by the allow patterns that match (the pattern with
\* a trailing '/*/' chopped to '/'), whatever the order of the rules; an
\* explicit rule that does not match contributes nothing.
C18_ShortestTreedir ==
    (called = "allow_jail" /\ allowed) =>
      LET d == path_endslash(cdir)
          parts(q) == {SubSeq(d, 1, i) : i \in
                         {j \in DOMAIN d :
                            d[j] = "/" /\ fnmatch(q, SubSeq(d, 1, j), TRUE)}}
          chopped(q) == IF /\ Len(q) > 3
                           /\ SubSeq(q, Len(q) - 2, Len(q)) = <<"/", "*", "/">>
                          THEN SubSeq(q, 1, Len(q) - 2)
                          ELSE q
          expl == UNION {parts(path_endslash(conf[k].arg)) : k \in
                           {j \in DOMAIN conf : conf[j].action = "treedir"}}
          impl == UNION {parts(chopped(path_endslash(conf[k].arg))) : k \in
                           {j \in DOMAIN conf :
                              /\ conf[j].action \in {"enablejail", "allowjail"}
                              /\ conf[j].arg # <<>>
                              /\ fnmatch(path_endslash(conf[j].arg), d, TRUE)}}
      IN /\ treedir_ \in expl \cup impl
         /\ \A c \in expl \cup impl : Len(treedir_) <= Len(c)

\* The allow pattern implies /j/a/, an explicit rule gives the shorter
\* /j/, another explicit rule does not match: treedir() is /j/.
C18_Witness ==
    /\ called = "allow_jail"
    /\ allowed
    /\ cdir = <<"/", "j", "/", "a">>
    /\ conf = <<[action |-> "allowjail", arg |-> <<"/", "j", "/", "a">>],
                [action |-> "treedir", arg |-> <<"/", "k">>],
                [action |-> "treedir", arg |-> <<"/", "j">>]>>
    /\ treedir_ = <<"/", "j", "/">>

(***************************************************************************)
(*                   SpecRm: pa-jail rm [-n] [--bg] JAILDIR                *)
(***************************************************************************)

\* Rm_Parse with foreground left clear by the word rm.
Rm_Parse_bgdefault ==
    /\ pc["main"] = "parse_args"
    /\ IF opt = "--fg"
         THEN /\ foreground_' = TRUE
              /\ Exit("main", 1)
              /\ oplog' = Append(oplog, [op |-> "usage", path |-> <<>>,
                                         from |-> -1, by |-> "main"])
         ELSE /\ foreground_' = FALSE
              /\ Goto("main", "parse_user")
              /\ UNCHANGED oplog
    /\ UNCHANGED <<cred, runVars, dir, permdir, nodes, last_pos, fd, parentfd,
                   dryrunning, doforce, opened, made, confVars, restVars, opt, fs, dev,
                   procmounts, mount_table, visited, dst_table, stack,
                   loopVars>>

\* main, 3204-3307 for the word rm and the option after it: rm sets
\* foreground (3293), the options that follow are read with
\* longoptions_rm (3161-3168), an option not in that table ends in
\* usage(do_rm), which prints and exits 1 (3081-3089, 3118).
Rm_Parse ==
    /\ pc["main"] = "parse_args"
    /\ IF opt = "--fg"
         THEN /\ foreground_' = TRUE
              /\ Exit("main", 1)
              /\ oplog' = Append(oplog, [op |-> "usage", path |-> <<>>,
                                         from |-> -1, by |-> "main"])
         ELSE /\ foreground_' = (opt # "--bg")
              /\ Goto("main", "parse_user")
              /\ UNCHANGED oplog
    /\ UNCHANGED <<cred, runVars, dir, permdir, nodes, last_pos, fd, parentfd,
                   dryrunning, doforce, opened, made, confVars, restVars, opt, fs, dev,
                   procmounts, mount_table, visited, dst_table, stack,
                   loopVars>>

\* main, 3495-3496 with populate_mount_table (591-607).
Rm_Populate ==
    /\ pc[goer] = "rm_go"
    /\ Goto(goer, "rm_umount")
    /\ mount_table' = procmounts
    /\ visited' = {}
    /\ UNCHANGED <<cred, foreground_, runVars, dir, permdir, nodes, last_pos,
                   fd, parentfd, dryrunning, doforce, opened, made, confVars, restVars,
                   opt, fs, dev, procmounts, dst_table, stack, oplog,
                   loopVars>>

\* umount(2): EBUSY for a mount point that has a mount point below it which
\* has not been unmounted.
Busy(it) ==
    \E m \in procmounts :
        /\ Len(m) > Len(it)
        /\ SubSeq(m, 1, Len(it) + 1) = it \o <<"/">>
        /\ ~\E i \in DOMAIN oplog : oplog[i].op = "umount" /\ oplog[i].path = m

\* main, 3497-3504, one pass of the loop with handle_umount (687-700):
\* the keys of the unordered_map (588-589) come in no particular order;
\* jaildir.dir has its slash (3486).
\* After the last key main calls jaildir.remove(), which calls
\* remove_recursive(parentfd, component, path_endslash(dir)) (1781-1783).
Rm_Umount ==
    /\ pc[goer] = "rm_umount"
    /\ IF mount_table = visited
         THEN /\ Goto(goer, "rm_remove")
              /\ stack' = <<[path |-> <<>>,
                             component |-> <<>>,
                             dirname |-> <<>>,
                             left |-> {[name |-> Tail(dir), isdir |-> TRUE]}]>>
              /\ UNCHANGED <<fs, visited, dst_table, oplog>>
         ELSE \E it \in mount_table \ visited :
                \E jd \in {path_endslash(dir)} :
                  /\ visited' = visited \cup {it}
                  /\ UNCHANGED stack
                  /\ IF ~(Len(it) >= Len(jd) /\ SubSeq(it, 1, Len(jd)) = jd)
                       THEN /\ Goto(goer, "rm_umount")
                            /\ UNCHANGED <<fs, dst_table, oplog>>
                     ELSE IF dryrun
                       THEN /\ Goto(goer, "rm_umount")
                            /\ dst_table' = dst_table \cup {it}
                            /\ UNCHANGED <<fs, oplog>>
                     ELSE IF Busy(it)
                       THEN /\ Exit(goer, 1)
                            /\ oplog' = Append(oplog,
                                 [op |-> "EBUSY", path |-> it,
                                  from |-> -1, by |-> goer])
                            /\ UNCHANGED <<fs, dst_table>>
                     ELSE \E ok \in BOOLEAN :
                            IF ok
                              THEN /\ Goto(goer, "rm_umount")
                                   /\ fs' = IF it \in DOMAIN fs
                                              THEN [fs EXCEPT ![it] = Tail(fs[it])]
                                              ELSE fs
                                   /\ oplog' = Append(oplog,
                                        [op |-> "umount", path |-> it,
                                         from |-> -1, by |-> goer])
                                   /\ UNCHANGED dst_table
                              ELSE /\ Exit(goer, 1)
                                   /\ UNCHANGED <<fs, dst_table, oplog>>
    /\ UNCHANGED <<cred, foreground_, runVars, dir, permdir, nodes, last_pos,
                   fd, parentfd, dryrunning, doforce, opened, made, confVars, restVars,
                   opt, dev, procmounts, mount_table, loopVars>>

\* RemoveEnters without the test of the device.
RemoveEnters_anydev(dirname, path) == dirname \notin dst_table

\* remove_recursive, 1787-1804: the call goes on to read the directory
\* unless it is marked as an unmounted file system or is on another device.
RemoveEnters(dirname, path) ==
    /\ dirname \notin dst_table
    /\ fs[path][1].dev = dev

\* remove_recursive, 1810-1826, one entry of the directory: a directory
\* is a nested call with dirname + d_name as its dirname, anything else is
\* unlinked.
Rr_Entry ==
    /\ pc[goer] = "rm_remove"
    /\ stack # <<>>
    /\ \E e \in stack[Len(stack)].left :
         LET n == Len(stack)
             t == stack[n]
             cp == t.path \o <<"/">> \o e.name
             cd == IF n = 1 THEN path_endslash(dir) ELSE t.dirname \o e.name
             rest == [stack EXCEPT ![n].left = t.left \ {e}]
         IN IF e.isdir
              THEN /\ stack' = IF RemoveEnters(cd, cp)
                                 THEN Append(rest, [path |-> cp,
                                                    component |-> e.name,
                                                    dirname |-> cd,
                                                    left |-> fs[cp][1].entries])
                                 ELSE rest
                   /\ Goto(goer, "rm_remove")
                   /\ UNCHANGED <<fs, oplog>>
            ELSE IF dryrun
              THEN /\ stack' = rest
                   /\ Goto(goer, "rm_remove")
                   /\ UNCHANGED <<fs, oplog>>
            ELSE \E ok \in BOOLEAN :
                   IF ok
                     THEN /\ stack' = rest
                          /\ Goto(goer, "rm_remove")
                          /\ fs' = [fs EXCEPT ![t.path][1].entries =
                                                 fs[t.path][1].entries \ {e}]
                          /\ oplog' = Append(oplog,
                               [op |-> "unlink", path |-> cp,
                                from |-> fs[t.path][1].dev, by |-> goer])
                     ELSE /\ Die(goer)
                          /\ UNCHANGED <<stack, fs, oplog>>
    /\ UNCHANGED <<cred, foreground_, runVars, dir, permdir, nodes, last_pos,
                   fd, parentfd, dryrunning, doforce, opened, made, confVars, restVars,
                   opt, dev, procmounts, mount_table, visited, dst_table,
                   loopVars>>

\* remove_recursive, 1827-1835, after the last entry: the directory is
\* removed from its parent, which the kernel refuses for a directory that
\* has entries or is a mount point; main, 3506, after remove() returns.
Rr_Return ==
    /\ pc[goer] = "rm_remove"
    /\ stack # <<>>
    /\ stack[Len(stack)].left = {}
    /\ LET n == Len(stack)
           t == stack[n]
       IN IF n = 1
            THEN /\ Exit(goer, 0)
                 /\ stack' = <<>>
                 /\ UNCHANGED <<fs, oplog>>
          ELSE IF dryrun
            THEN /\ Goto(goer, "rm_remove")
                 /\ stack' = SubSeq(stack, 1, n - 1)
                 /\ UNCHANGED <<fs, oplog>>
          ELSE IF Len(fs[t.path]) = 1 /\ fs[t.path][1].entries = {}
            THEN /\ Goto(goer, "rm_remove")
                 /\ stack' = SubSeq(stack, 1, n - 1)
                 /\ fs' = [fs EXCEPT ![stack[n - 1].path][1].entries =
                             {x \in fs[stack[n - 1].path][1].entries :
                                x.name # t.component}]
                 /\ oplog' = Append(oplog,
                      [op |-> "rmdir", path |-> t.path,
                       from |-> fs[stack[n - 1].path][1].dev, by |-> goer])
          ELSE /\ Die(goer)
               /\ UNCHANGED <<stack, fs, oplog>>
    /\ UNCHANGED <<cred, foreground_, runVars, dir, permdir, nodes, last_pos,
                   fd, parentfd, dryrunning, doforce, opened, made, confVars, restVars,
                   opt, dev, procmounts, mount_table, visited, dst_table,
                   loopVars>>

\* The state at the entry of main for `pa-jail rm [-n] [--bg|--fg] /j1`:
\* the jail holds a directory with a file, a directory p and a file; /j1/p
\* may carry one mount or two, /j1 itself, the sibling /j10 and / may be
\* mount points; a mounted file system has a device of its own.  pa-jail
\* is installed set-uid root and possibly set-gid root.
RmInit ==
    /\ action = "do_rm"
    /\ dryrun \in BOOLEAN
    /\ has_user = FALSE
    /\ has_cmd = FALSE
    /\ pidfile = FALSE
    /\ foreground_ = FALSE
    /\ pc = [p \in Procs |-> IF p = "main" THEN "parse_args" ELSE "none"]
    /\ exitcode = [p \in Procs |-> -1]
    /\ \E eg \in {100, ROOT} :
         cred = [p \in Procs |->
                   IF p = "main"
                     THEN [ruid |-> 1000, euid |-> ROOT, suid |-> ROOT,
                           rgid |-> 100, egid |-> eg, sgid |-> eg]
                     ELSE NoCred]
    /\ caller_owner = 0
    /\ caller_group = 0
    /\ owner_ = ROOT
    /\ group_ = ROOT
    /\ goer = "main"
    /\ syscalls = {}
    /\ idlog = <<>>
    /\ tries = 0
    /\ exit_value = 0
    /\ failed = {}
    /\ dir = <<"/", "j", "1">>
    /\ permdir = <<>>
    /\ nodes = <<>>
    /\ last_pos = 0
    /\ fd = -1
    /\ parentfd = -1
    /\ dryrunning = FALSE
    /\ doforce = FALSE
    /\ opened = {}
    /\ made = {}
    /\ ConfNull
    /\ opt \in {"none", "--bg", "--fg"}
    /\ procmounts \in SUBSET {<<"/">>, dir, dir \o <<"/", "p">>, dir \o <<"0">>,
                              dir \o <<"/", "p", "/", "q">>}
    /\ dir \o <<"/", "p", "/", "q">> \in procmounts
         => dir \o <<"/", "p">> \in procmounts
    /\ dev = IF dir \in procmounts THEN 3 ELSE 1
    /\ \E k \in 1..2 :
         LET file(c) == [name |-> <<c>>, isdir |-> FALSE]
             subdir(c) == [name |-> c, isdir |-> TRUE]
             top == [dev |-> dev,
                     entries |-> {subdir(<<"a">>), subdir(<<"p">>), file("h")}]
             bare == [dev |-> 1, entries |-> {}]
             on(i) == [dev |-> 3 + i, entries |-> {file("x")}]
         IN fs = [d \in {<<>>, dir, dir \o <<"/", "a">>, dir \o <<"/", "p">>} |->
                    IF d = <<>>
                      THEN <<[dev |-> 1,
                              entries |-> {subdir(Tail(dir)),
                                           subdir(Tail(dir) \o <<"0">>)}]>>
                    ELSE IF d = dir
                      THEN IF dir \in procmounts THEN <<top, bare>> ELSE <<top>>
                    ELSE IF d = dir \o <<"/", "a">>
                      THEN <<[dev |-> dev, entries |-> {file("f")}]>>
                    ELSE IF d \in procmounts
                      THEN [i \in 1..k |-> on(i)]
                             \o <<[dev |-> dev, entries |-> {}]>>
                    ELSE <<[dev |-> dev, entries |-> {}]>>]
    /\ mount_table = {}
    /\ visited = {}
    /\ dst_table = {}
    /\ stack = <<>>
    /\ oplog = <<>>
    /\ LoopNull
    /\ RestNull

RmNext ==
    \/ Rm_Parse
    \/ M_ParseUser
    \/ M_Revert
    \/ M_OpenFiles
    \/ M_Escalate
    \/ M_JailDir
    \/ M_RmFork
    \/ Rm_Populate
    \/ Rm_Umount
    \/ Rr_Entry
    \/ Rr_Return

SpecRm == RmInit /\ [][RmNext]_vars

(***************************************************************************)
(*                         Properties of SpecRm                            *)
(***************************************************************************)

C20_UmountFirstOneDevice ==
    LET below(q, d) == /\ Len(q) > Len(d)
                       /\ SubSeq(q, 1, Len(d) + 1) = d \o <<"/">>
        removal(i) == oplog[i].op \in {"unlink", "rmdir"}
    IN /\ \A i, j \in DOMAIN oplog :
            (removal(i) /\ oplog[j].op = "umount") => j < i
       /\ \A i \in DOMAIN oplog :
            oplog[i].op = "umount"
              => /\ below(oplog[i].path, dir)
                 /\ oplog[i].path \notin {<<"/">>, dir, dir \o <<"0">>}
       /\ \A i \in DOMAIN oplog : removal(i) => oplog[i].from = dev
       /\ \A i \in DOMAIN oplog :
            oplog[i].op = "rmdir"
              => /\ fs[oplog[i].path][1].entries = {}
                 /\ \A j \in DOMAIN oplog :
                      below(oplog[j].path, oplog[i].path) => j < i

\* /j1/p and the sibling /j10 were mount points: /j1/p was unmounted,
\* then its directory, the files and /j1 were removed, /j10 was left.
C20_Witness ==
    /\ ~dryrun
    /\ pc[goer] = "exited"
    /\ exitcode[goer] = 0
    /\ {dir \o <<"/", "p">>, dir \o <<"0">>} \subseteq procmounts
    /\ Len(oplog) = 6
    /\ oplog[1].op = "umount"
    /\ oplog[1].path = dir \o <<"/", "p">>
    /\ \A i \in 2..6 : oplog[i].op \in {"unlink", "rmdir"}
    /\ oplog[6].path = dir

\* C39: in rm a mount point under the jail is unmounted only after every
\* mount point below it, so that no umount finds its mount point busy.
C39_DeeperUnmountedFirst ==
    \A i \in DOMAIN oplog :
        /\ oplog[i].op # "EBUSY"
        /\ oplog[i].op = "umount" =>
              \A m \in procmounts :
                  (/\ Len(m) > Len(oplog[i].path)
                   /\ SubSeq(m, 1, Len(oplog[i].path) + 1)
                        = oplog[i].path \o <<"/">>)
                  => \E j \in 1..(i - 1) :
                        oplog[j].op = "umount" /\ oplog[j].path = m

(***************************************************************************)
(*            SpecStr: the string helpers (shell_quote)                    *)
(***************************************************************************)

\* Bound: length of the argument.
MaxArg == 3

\* Characters of the arguments: a letter, the quote, the tilde, a blank and
\* the backslash.
ArgChars == {"a", "'", "~", " ", "\\"}

\* isalnum in the C locale.
isalnum(c) ==
    c \in {"A", "B", "C", "D", "E", "F", "G", "H", "I", "J", "K", "L", "M",
           "N", "O", "P", "Q", "R", "S", "T", "U", "V", "W", "X", "Y", "Z",
           "a", "b", "c", "d", "e", "f", "g", "h", "i", "j", "k", "l", "m",
           "n", "o", "p", "q", "r", "s", "t", "u", "v", "w", "x", "y", "z",
           "0", "1", "2", "3", "4", "5", "6", "7", "8", "9"}

\* shell_quote, 158-184; pos and last count from 1.
shell_quote(arg) ==
    LET special(pos) ==
            \/ pos = 1 /\ arg[pos] = "~"
            \/ ~(\/ isalnum(arg[pos])
                 \/ arg[pos] \in {"_", "-", "~", ".", "/"})
        RECURSIVE scan(_, _, _)
        scan(pos, last, q) ==
            IF pos > Len(arg) THEN [quoted |-> q, last |-> last]
            ELSE IF special(pos)
              THEN LET q1 == IF q = <<>> THEN <<"'">> ELSE q
                   IN IF arg[pos] = "'"
                        THEN scan(pos + 1, pos + 1,
                                  q1 \o SubSeq(arg, last, pos - 1)
                                     \o <<"'", "\\", "'", "'">>)
                        ELSE scan(pos + 1, last, q1)
              ELSE scan(pos + 1, last, q)
        r == scan(1, 1, <<>>)
    IN IF r.quoted = <<>>
         THEN arg
         ELSE r.quoted \o SubSeq(arg, r.last, Len(arg)) \o <<"'">>

\* One call of shell_quote.
Quote ==
    /\ pc["main"] = "shell_quote"
    /\ quoted' = shell_quote(argument)
    /\ Goto("main", "quoted")
    /\ UNCHANGED <<cred, foreground_, runVars, dir, permdir, nodes, last_pos,
                   fd, parentfd, dryrunning, doforce, opened, made, confVars,
                   rmVars, bufVars, addVars, fnVars, loopVars, argument>>

StrInit ==
    /\ pc = [p \in Procs |-> IF p = "main" THEN "shell_quote" ELSE "none"]
    /\ exitcode = [p \in Procs |-> -1]
    /\ cred = [p \in Procs |-> NoCred]
    /\ foreground_ = FALSE
    /\ action = "do_run"
    /\ dryrun = FALSE
    /\ has_user = TRUE
    /\ has_cmd = TRUE
    /\ pidfile = FALSE
    /\ caller_owner = 0
    /\ caller_group = 0
    /\ owner_ = ROOT
    /\ group_ = ROOT
    /\ goer = "main"
    /\ syscalls = {}
    /\ idlog = <<>>
    /\ tries = 0
    /\ exit_value = 0
    /\ failed = {}
    /\ DirNull
    /\ ConfNull
    /\ RmNull
    /\ LoopNull
    /\ BufNull
    /\ AddNull
    /\ FnNull
    /\ argument \in SeqsUpTo(ArgChars, MaxArg)
    /\ quoted = <<>>

StrNext ==
    \/ Quote

SpecStr == StrInit /\ [][StrNext]_vars

(***************************************************************************)
(*                        Properties of SpecStr                            *)
(***************************************************************************)

RECURSIVE ShellScan(_, _, _, _, _)
\* The words a POSIX shell makes of s from position i on: inside single
\* quotes every character stands for itself; outside a backslash keeps the
\* next character, a blank ends the word, a tilde at the start of a word is
\* replaced by a home directory.
ShellScan(s, i, inq, cur, words) ==
    IF i > Len(s)
      THEN IF inq THEN <<<<"unterminated">>>>
           ELSE IF cur.has THEN Append(words, cur.w) ELSE words
    ELSE IF inq
      THEN IF s[i] = "'"
             THEN ShellScan(s, i + 1, FALSE, cur, words)
             ELSE ShellScan(s, i + 1, TRUE,
                            [cur EXCEPT !.w = Append(@, s[i])], words)
    ELSE IF s[i] = "'"
      THEN ShellScan(s, i + 1, TRUE, [cur EXCEPT !.has = TRUE], words)
    ELSE IF s[i] = "\\"
      THEN IF i < Len(s)
             THEN ShellScan(s, i + 2, FALSE,
                            [has |-> TRUE, w |-> Append(cur.w, s[i + 1])],
                            words)
             ELSE ShellScan(s, i + 1, FALSE,
                            [has |-> TRUE, w |-> Append(cur.w, "\\")], words)
    ELSE IF s[i] = " "
      THEN ShellScan(s, i + 1, FALSE, [has |-> FALSE, w |-> <<>>],
                     IF cur.has THEN Append(words, cur.w) ELSE words)
    ELSE IF s[i] = "~" /\ ~cur.has
      THEN ShellScan(s, i + 1, FALSE,
                     [has |-> TRUE, w |-> Append(cur.w, "$HOME")], words)
    ELSE ShellScan(s, i + 1, FALSE,
                   [has |-> TRUE, w |-> Append(cur.w, s[i])], words)

\* C30: the shell reads shell_quote(s) as exactly one word, equal to s, for
\* every s, the empty string and strings of quotes included; and
\* shell_quote(s) is s exactly when s is made of A-Za-z0-9_-.~/ only and
\* does not begin with a tilde.
C30_QuoteRoundTrip ==
    pc["main"] = "quoted" =>
      /\ ShellScan(quoted, 1, FALSE, [has |-> FALSE, w |-> <<>>], <<>>)
           = <<argument>>
      /\ (quoted = argument) <=>
           /\ \A i \in 1..Len(argument) :
                isalnum(argument[i])
                  \/ argument[i] \in {"_", "-", "~", ".", "/"}
           /\ (argument = <<>> \/ argument[1] # "~")

(***************************************************************************)
(*        SpecBuf: one jbuffer and the offset its caller keeps             *)
(***************************************************************************)

\* Bound: bytes supplied to the buffer.
MaxFed == 8

\* Bound: capacity the buffer is constructed with.
BufCap == 4

\* SIGABRT, raised by a failed assert.
SIGABRT == 6

\* The assertion at 2007 and 2022.
OffInRange(j, off) == off >= j.bufpos_ + j.head_ /\ off <= j.bufpos_ + j.tail_

\* The next n bytes of the stream; each byte is its own position.
NextBytes(n) == [k \in 1..n |-> Len(fed) + k]

\* jbuffer::append(first, last) of n bytes.
B_Append ==
    /\ pc["main"] = "jbuffer"
    /\ \E n \in 1..(MaxFed - Len(fed)) :
         /\ jbuf_' = JAppend(jbuf_, NextBytes(n))
         /\ fed' = fed \o NextBytes(n)
    /\ UNCHANGED <<pc, exitcode, cred, foreground_, runVars, dir, permdir, nodes,
                   last_pos, fd, parentfd, dryrunning, doforce, opened, made,
                   confVars, rmVars, strVars, addVars, fnVars,
                   loopVars, off_, sent>>

\* jbuffer::read: ::read gives up to cap_ - tail_ bytes, end of file or an
\* error.
B_Read ==
    /\ pc["main"] = "jbuffer"
    /\ \E o \in JReadOutcomes(jbuf_, 0,
                  {IoData(NextBytes(n)) :
                     n \in 1..MinOf(jbuf_.cap_ - jbuf_.tail_,
                                    MaxFed - Len(fed))}
                  \cup {IoEof, IoError(EAGAIN), IoError(EIO)}) :
         /\ jbuf_' = o.j
         /\ fed' = fed \o o.r.data
    /\ UNCHANGED <<pc, exitcode, cred, foreground_, runVars, dir, permdir, nodes,
                   last_pos, fd, parentfd, dryrunning, doforce, opened, made,
                   confVars, rmVars, strVars, addVars, fnVars,
                   loopVars, off_, sent>>

\* jbuffer::write(to, off_): ::write takes some of the bytes from off_ on,
\* or fails.
B_Write ==
    /\ pc["main"] = "jbuffer"
    /\ IF ~OffInRange(jbuf_, off_)
         THEN Exit("main", 128 + SIGABRT) /\ UNCHANGED <<jbuf_, off_, sent>>
         ELSE \E o \in JWrite(jbuf_, 1, off_, {EAGAIN, EPIPE}) :
                /\ jbuf_' = o.j
                /\ off_' = o.off
                /\ sent' = sent \o o.data
                /\ UNCHANGED <<pc, exitcode>>
    /\ UNCHANGED <<cred, foreground_, runVars, dir, permdir, nodes,
                   last_pos, fd, parentfd, dryrunning, doforce, opened, made,
                   confVars, rmVars, strVars, addVars, fnVars,
                   loopVars, fed>>

\* jbuffer::consume_to(off_), as its callers at 2955, 2974, 2980 and 3033
\* call it.
B_ConsumeTo ==
    /\ pc["main"] = "jbuffer"
    /\ IF ~OffInRange(jbuf_, off_)
         THEN Exit("main", 128 + SIGABRT) /\ UNCHANGED jbuf_
         ELSE jbuf_' = JConsumeTo(jbuf_, off_) /\ UNCHANGED <<pc, exitcode>>
    /\ UNCHANGED <<cred, foreground_, runVars, dir, permdir, nodes,
                   last_pos, fd, parentfd, dryrunning, doforce, opened, made,
                   confVars, rmVars, strVars, addVars, fnVars,
                   loopVars, off_, fed, sent>>

\* A buffer as the constructors at 2134 and 2144-2145 leave it: empty, its
\* first byte at the offset the output descriptor is at.
BufInit ==
    /\ pc = [p \in Procs |-> IF p = "main" THEN "jbuffer" ELSE "none"]
    /\ exitcode = [p \in Procs |-> -1]
    /\ cred = [p \in Procs |-> NoCred]
    /\ foreground_ = FALSE
    /\ action = "do_run"
    /\ dryrun = FALSE
    /\ has_user = TRUE
    /\ has_cmd = TRUE
    /\ pidfile = FALSE
    /\ caller_owner = 0
    /\ caller_group = 0
    /\ owner_ = ROOT
    /\ group_ = ROOT
    /\ goer = "main"
    /\ syscalls = {}
    /\ idlog = <<>>
    /\ tries = 0
    /\ exit_value = 0
    /\ failed = {}
    /\ DirNull
    /\ ConfNull
    /\ RmNull
    /\ LoopNull
    /\ StrNull
    /\ AddNull
    /\ FnNull
    /\ \E stdout_off \in {0, 2} :
         /\ jbuf_ = [JBuffer(BufCap) EXCEPT !.bufpos_ = stdout_off]
         /\ off_ = stdout_off
    /\ fed = <<>>
    /\ sent = <<>>

BufNext ==
    \/ B_Append
    \/ B_Read
    \/ B_Write
    \/ B_ConsumeTo

SpecBuf == BufInit /\ [][BufNext]_vars

(***************************************************************************)
(*                        Properties of SpecBuf                            *)
(***************************************************************************)

\* C28: whatever the order of append, read, write and consume_to, with
\* partial reads and writes, growth and compaction, the bytes given to the
\* output descriptor are the first bytes that were appended or read in, in
\* the same order, none twice and none left out; the bytes from the
\* caller's offset to the tail are the ones that follow.
C28_OutputIsPrefixOfInput ==
    /\ Len(sent) <= Len(fed)
    /\ sent = SubSeq(fed, 1, Len(sent))
    /\ pc["main"] = "jbuffer" =>
         fed = sent \o SubSeq(jbuf_.buf_, off_ - jbuf_.bufpos_ + 1,
                              jbuf_.tail_)

\* Every byte supplied has been written, in several writes, after the
\* buffer has grown and after it has been compacted.
C28_Witness ==
    /\ Len(fed) = MaxFed
    /\ sent = fed
    /\ jbuf_.cap_ > BufCap
    /\ jbuf_.bufpos_ > 2
    /\ jbuf_.head_ > 0

\* C29: every jbuffer of the controller has head <= tail <= cap; the byte
\* at index i of from_slave_ is the byte bufpos + i of the payload's output
\* and the entry at index i of a subscriber's buffer is the entry
\* bufpos + i of what was appended for it, growth and compaction
\* notwithstanding; and to_slave_off_, from_slave_off_ and each subscriber's
\* off_ lie between bufpos + head and bufpos + tail of their buffer.
C29_OffsetsStayInBuffer ==
    pc["child"] \in {"loop", "exec_done", "flush"} =>
      /\ to_slave_.head_ <= to_slave_.tail_
      /\ to_slave_.tail_ <= to_slave_.cap_
      /\ from_slave_.head_ <= from_slave_.tail_
      /\ from_slave_.tail_ <= from_slave_.cap_
      /\ OffInRange(to_slave_, to_slave_off_)
      /\ OffInRange(from_slave_, from_slave_off_)
      /\ \A i \in (from_slave_.head_ + 1)..from_slave_.tail_ :
           from_slave_.buf_[i] = outdata[from_slave_.bufpos_ + i]
      /\ \A k \in 1..Len(esfds_) :
           LET e == esfds_[k]
               IsMine(l) == l.fd = e.fd_
               mine == SelectSeq(evlog, IsMine)
           IN /\ e.jbuf_.head_ <= e.jbuf_.tail_
              /\ e.jbuf_.tail_ <= e.jbuf_.cap_
              /\ OffInRange(e.jbuf_, e.off_)
              /\ \A i \in (e.jbuf_.head_ + 1)..e.jbuf_.tail_ :
                   e.jbuf_.buf_[i] =
                     IF e.jbuf_.bufpos_ + i <= Len(mine)
                       THEN mine[e.jbuf_.bufpos_ + i].ev
                       ELSE DoneEvent

\* A subscriber has taken its first event and holds two more: its buffer
\* has grown and has been compacted, and so has from_slave_.
C29_Witness ==
    /\ pc["child"] = "loop"
    /\ Len(esfds_) = 1
    /\ esfds_[1].jbuf_.bufpos_ > 0
    /\ esfds_[1].jbuf_.tail_ > 0
    /\ from_slave_.bufpos_ > 0
    /\ from_slave_off_ > 0

(***************************************************************************)
(* SpecAdd: pa-jail add and the construction phase of pa-jail run on a     *)
(* small file system.  A path is a sequence of characters, as in SpecDir;  *)
(* the file system maps the sequence of the names along a path to the      *)
(* inode found there.  verbosefile holds what the wrappers print under -V.  *)
(***************************************************************************)

\* Bounds: the lines of a manifest_, the invocations of pa-jail in a row,
\* and the length of a path the kernel accepts, which stands for PATH_MAX.
MaxManifest == 2
MaxRuns == 2
PathMax == 16

\* The variables no step of SpecAdd changes.
addFixed == <<cred, foreground_, action, has_user, has_cmd, pidfile,
              caller_owner, caller_group, owner_, group_, goer, syscalls,
              idlog, tries, failed, dir, permdir, nodes, last_pos, fd,
              parentfd, dryrunning, doforce, opened, made, confVars, rmVars,
              strVars, bufVars, fnVars, loopVars, manifest_>>

\* path_noendslash, 139-144.
RECURSIVE path_noendslash(_)
path_noendslash(path) ==
    IF Len(path) > 1 /\ path[Len(path)] = "/"
    THEN path_noendslash(SubSeq(path, 1, Len(path) - 1))
    ELSE path

\* std::string::rfind('/', from) as a position counted from 1, 0 for npos.
RECURSIVE RFindSlash(_, _)
RFindSlash(s, from) ==
    IF from < 1 THEN 0
    ELSE IF from <= Len(s) /\ s[from] = "/" THEN from
    ELSE RFindSlash(s, from - 1)

\* path_parentdir, 147-156: the path up to and with the slash before its
\* last name.
path_parentdir(path) ==
    LET stripped == path_noendslash(path)
        cut == RFindSlash(stripped, Len(stripped))
    IN  IF Len(stripped) <= 1 THEN stripped
        ELSE SubSeq(stripped, 1, IF cut < 1 THEN 1 ELSE cut)

\* The names between the slashes of a path, as the kernel reads it.
RECURSIVE Split(_, _, _, _)
Split(p, i, cur, acc) ==
    LET done == IF cur = <<>> THEN acc ELSE Append(acc, cur)
    IN  IF i > Len(p) THEN done
        ELSE IF p[i] = "/" THEN Split(p, i + 1, <<>>, done)
        ELSE Split(p, i + 1, Append(cur, p[i]), acc)

Comps(p) == Split(p, 1, <<>>, <<>>)

\* Path resolution of the kernel (path_resolution(7)) from the root: "."
\* and "..", symbolic links in the middle of the path, the last name
\* followed only when `follow`; PATH_MAX and the limit of 40 links.
RECURSIVE Walk(_, _, _, _, _)
Walk(d, cur, rest, hops, follow) ==
    IF rest = <<>> THEN [err |-> "", key |-> cur, last |-> TRUE]
    ELSE LET c == Head(rest)
             more == Tail(rest)
             nxt == Append(cur, c)
         IN  IF c = <<".">> THEN Walk(d, cur, more, hops, follow)
             ELSE IF c = <<".", ".">>
             THEN Walk(d, SubSeq(cur, 1, Len(cur) - 1), more, hops, follow)
             ELSE IF nxt \notin DOMAIN d
             THEN [err |-> "ENOENT", key |-> nxt, last |-> more = <<>>]
             ELSE IF d[nxt].type = "lnk" /\ (more # <<>> \/ follow)
             THEN IF hops >= 40
                  THEN [err |-> "ELOOP", key |-> nxt, last |-> FALSE]
                  ELSE Walk(d, IF d[nxt].lnk[1] = "/" THEN <<>> ELSE cur,
                            Comps(d[nxt].lnk) \o more, hops + 1, follow)
             ELSE IF more # <<>> /\ d[nxt].type # "dir"
             THEN [err |-> "ENOTDIR", key |-> nxt, last |-> FALSE]
             ELSE Walk(d, nxt, more, hops, follow)

Lookup(d, p, follow) ==
    IF Len(p) > PathMax
    THEN [err |-> "ENAMETOOLONG", key |-> <<>>, last |-> FALSE]
    ELSE Walk(d, <<>>, Comps(p), 0, follow)

\* lstat(2) and stat(2): the error and the inode.
NoStat ==
    [type |-> "none", mode |-> 0, uid |-> 0, gid |-> 0, size |-> 0,
     mtime |-> "never", rdev |-> 0, ino |-> 0, lnk |-> <<>>]

StatOf(d, p, follow) ==
    LET w == Lookup(d, p, follow)
    IN  IF w.err = "" THEN [err |-> "", st |-> d[w.key]]
        ELSE [err |-> w.err, st |-> NoStat]

\* An inode number no file of d has.
FreshIno(d) ==
    CHOOSE i \in 1..(Cardinality(DOMAIN d) + 1) :
        \A k \in DOMAIN d : d[k].ino # i

\* d with a new name at key.
WithEntry(d, key, node) ==
    [k \in DOMAIN d \cup {key} |-> IF k = key THEN node ELSE d[k]]

WithoutEntry(d, key) == [k \in DOMAIN d \ {key} |-> d[k]]

\* d after a change of the attributes of the inode at key: every name of
\* the inode shows it.
Touched(d, key, new) ==
    [k \in DOMAIN d |-> IF d[k].ino = d[key].ino THEN new ELSE d[k]]

\* f with the value v at the key k.
Put(f, k, v) == [x \in DOMAIN f \cup {k} |-> IF x = k THEN v ELSE f[x]]

\* std::map::insert: the first value of a key stays.
Inserted(f, k, v) == IF k \in DOMAIN f THEN f ELSE Put(f, k, v)

\* a & ~b on mode bits.
RECURSIVE AndNot(_, _)
AndNot(a, b) ==
    IF a = 0 THEN 0
    ELSE 2 * AndNot(a \div 2, b \div 2)
         + (IF a % 2 = 1 /\ b % 2 = 0 THEN 1 ELSE 0)

\* What the wrappers work on: the file system, the lines printed under -V,
\* the number of changes made to the file system, exit_value, and r, the
\* value the wrapper returned.
Say(S, cmd, path) ==
    [S EXCEPT !.out = Append(@, [cmd |-> cmd, path |-> path])]

Ret(S, r) == [S EXCEPT !.r = r]

Changed(S, d) == [S EXCEPT !.disk = d, !.mods = @ + 1, !.r = 0]

\* perror_fail, 106-110.
perror_fail(S) == [S EXCEPT !.ev = 1, !.r = 1]

\* unlink(2) as x_rm_f and x_link use it: 0, or 1 after perror_fail.
Unlinked(S, dst) ==
    LET f(w) ==
          IF w.err = "ENOENT" THEN Ret(S, 0)
          ELSE IF w.err # "" \/ S.disk[w.key].type = "dir"
          THEN perror_fail(S)
          ELSE Changed(S, WithoutEntry(S.disk, w.key))
    IN  f(Lookup(S.disk, dst, FALSE))

\* x_rm_f, 772-784.
x_rm_f(S, dst) ==
    IF dryrun THEN Ret(Say(S, "rm -f", dst), 0)
    ELSE Unlinked(Say(S, "rm -f", dst), dst)

\* x_cp_p, 786-816, with /bin/cp -p: a new file with the data, the mode,
\* the owner and the times of src.
x_cp_p(S, src, dst) ==
    LET cp(S2, s, w) ==
          IF dryrun THEN Ret(S2, 0)
          ELSE IF s.err = "" /\ s.st.type = "reg" /\ w.err = "ENOENT"
                  /\ w.last
          THEN Changed(S2, WithEntry(S2.disk, w.key,
                          [s.st EXCEPT !.ino = FreshIno(S2.disk)]))
          ELSE perror_fail(S2)
        removed(S1) ==
          IF S1.r # 0 THEN Ret(S1, 1)
          ELSE cp(Say(S1, "cp -p", dst), StatOf(S1.disk, src, TRUE),
                  Lookup(S1.disk, dst, TRUE))
    IN  removed(x_rm_f(S, dst))

\* x_lchown_skip is x_lchown without the call of lchown.
x_lchown_skip(S, path, owner, group) == Ret(Say(S, "chown -h", path), 0)

\* x_lchown, 223-231.
x_lchown(S, path, owner, group) ==
    LET f(S1, w) ==
          LET new == [S1.disk[w.key] EXCEPT !.uid = owner, !.gid = group]
          IN  IF dryrun THEN Ret(S1, 0)
              ELSE IF w.err # "" THEN perror_fail(S1)
              ELSE IF new = S1.disk[w.key] THEN Ret(S1, 0)
              ELSE Changed(S1, Touched(S1.disk, w.key, new))
    IN  f(Say(S, "chown -h", path), Lookup(S.disk, path, FALSE))

\* v_mkdir, 253-258: the result of mkdir(2), which honours the umask and
\* makes the directory the property of the effective user, root.
v_mkdir(S, pathname, mode) ==
    LET f(S1, w) ==
          IF dryrun THEN Ret(S1, 0)
          ELSE IF w.err = "ENOENT" /\ w.last
          THEN Changed(S1, WithEntry(S1.disk, w.key,
                          [NoStat EXCEPT !.type = "dir",
                                         !.mode = AndNot(mode, S1.umask),
                                         !.mtime = "now",
                                         !.ino = FreshIno(S1.disk)]))
          ELSE Ret(S1, -1)
    IN  f(Say(S, "mkdir -m", pathname), Lookup(S.disk, pathname, FALSE))

\* v_ensuredir, 267-289.
RECURSIVE v_ensuredir(_, _, _, _)
v_ensuredir(S, pathname0, mode, nolink) ==
    LET pathname == path_noendslash(pathname0)
        parent_pathname == path_parentdir(pathname)
        remember(T) ==
          [T EXCEPT !.dirtable = Put(@, pathname,
                                     IF T.r = 1 THEN 0 ELSE T.r)]
        made_dir(M) == Ret(M, IF M.r = 0 THEN 1 ELSE -1)
        with_parent(P) ==
          IF P.r >= 0 THEN made_dir(v_mkdir(P, pathname, mode))
          ELSE Ret(P, -1)
        stated(s) ==
          IF s.err = "ENOENT"
          THEN with_parent(IF Len(parent_pathname) = Len(pathname)
                           THEN Ret(S, 0)
                           ELSE v_ensuredir(S, parent_pathname, mode, FALSE))
          ELSE Ret(S, IF s.err = "" /\ s.st.type = "dir" THEN 0 ELSE -1)
    IN  IF pathname \in DOMAIN S.dirtable THEN Ret(S, S.dirtable[pathname])
        ELSE remember(stated(StatOf(S.disk, pathname, ~nolink)))

\* x_link_copy is x_link making a copy where it is to make a link.
x_link_copy(S, oldpath, newpath) == x_cp_p(S, oldpath, newpath)

\* x_link, 291-301.
x_link(S, oldpath, newpath) ==
    LET ln(S2, o, n) ==
          IF o.err = "" /\ S2.disk[o.key].type # "dir"
             /\ n.err = "ENOENT" /\ n.last
          THEN Changed(S2, WithEntry(S2.disk, n.key, S2.disk[o.key]))
          ELSE perror_fail(S2)
        removed(S2) ==
          IF S2.r # 0 THEN S2
          ELSE ln(S2, Lookup(S2.disk, oldpath, FALSE),
                  Lookup(S2.disk, newpath, FALSE))
        said(S1) ==
          IF dryrun THEN Ret(S1, 0) ELSE removed(Unlinked(S1, newpath))
    IN  said(Say(Say(S, "rm -f", newpath), "ln", newpath))

\* x_chmod, 303-309.
x_chmod(S, path, mode) ==
    LET f(S1, w) ==
          LET new == [S1.disk[w.key] EXCEPT !.mode = mode]
          IN  IF dryrun THEN Ret(S1, 0)
              ELSE IF w.err # "" THEN perror_fail(S1)
              ELSE IF new = S1.disk[w.key] THEN Ret(S1, 0)
              ELSE Changed(S1, Touched(S1.disk, w.key, new))
    IN  f(Say(S, "chmod", path), Lookup(S.disk, path, TRUE))

\* x_mknod, 332-339, with x_mknod_eexist_ok, 311-317.
x_mknod(S, path, mode, rdev) ==
    LET f(S1, w, s) ==
          IF dryrun THEN Ret(S1, 0)
          ELSE IF w.err = "ENOENT" /\ w.last
          THEN Changed(S1, WithEntry(S1.disk, w.key,
                          [NoStat EXCEPT !.type = "chr", !.mode = mode,
                                         !.rdev = rdev, !.mtime = "now",
                                         !.ino = FreshIno(S1.disk)]))
          ELSE IF w.err = "" /\ s.err = "" /\ s.st.type = "chr"
                  /\ s.st.mode = mode /\ s.st.rdev = rdev
          THEN Ret(S1, 0)
          ELSE perror_fail(S1)
    IN  f(Say(S, "mknod -m", path), Lookup(S.disk, path, FALSE),
          StatOf(S.disk, path, TRUE))

\* x_symlink, 350-358, with x_symlink_eexist_ok, 341-348.
x_symlink(S, oldpath, newpath) ==
    LET f(S1, w) ==
          IF dryrun THEN Ret(S1, 0)
          ELSE IF w.err = "ENOENT" /\ w.last
          THEN Changed(S1, WithEntry(S1.disk, w.key,
                          [NoStat EXCEPT !.type = "lnk", !.mode = 511,
                                         !.size = Len(oldpath),
                                         !.mtime = "now", !.lnk = oldpath,
                                         !.ino = FreshIno(S1.disk)]))
          ELSE IF w.err = "" /\ S1.disk[w.key].type = "lnk"
                  /\ S1.disk[w.key].lnk = oldpath
          THEN Ret(S1, 0)
          ELSE perror_fail(S1)
    IN  f(Say(S, "ln -s", newpath), Lookup(S.disk, newpath, FALSE))

\* x_copy_utimes, 360-374.
x_copy_utimes(S, path, st) ==
    LET f(S1, w) ==
          LET new == [S1.disk[w.key] EXCEPT !.mtime = st.mtime]
          IN  IF dryrun THEN Ret(S1, 0)
              ELSE IF w.err # "" THEN perror_fail(S1)
              ELSE IF new = S1.disk[w.key] THEN Ret(S1, 0)
              ELSE Changed(S1, Touched(S1.disk, w.key, new))
    IN  f(Say(S, "touch -m -d", path), Lookup(S.disk, path, FALSE))

\* The character sequences the code compares paths with.
DevPtmx == <<"/", "d", "e", "v", "/", "p", "t", "m", "x">>
PtsPtmx == <<"p", "t", "s", "/", "p", "t", "m", "x">>
ProcDir == <<"/", "p", "r", "o", "c">>
DevPtsDir == <<"/", "d", "e", "v", "/", "p", "t", "s">>
TmpDir == <<"/", "t", "m", "p">>
RunDir == <<"/", "r", "u", "n">>
SysDir == <<"/", "s", "y", "s">>
DevDir == <<"/", "d", "e", "v">>

\* do_copy, 826-844: the destination is there already, with the type,
\* mode, owner, and where they count the size, device and time of src.
Matches(ss, ds) ==
    /\ ss.type = ds.type
    /\ ss.mode = ds.mode
    /\ ss.uid = ds.uid
    /\ ss.gid = ds.gid
    /\ ss.type \in {"reg", "lnk"} => ss.size = ds.size
    /\ ss.type = "chr" => ss.rdev = ds.rdev
    /\ ss.type \in {"reg", "lnk"} => ss.mtime = ds.mtime

\* st_mode & (S_ISUID | S_ISGID | S_IRWXU | S_IRWXG | S_IRWXO), 858: the
\* sticky bit, 01000, is not in the mask.
PermOf(mode) == IF (mode \div 512) % 2 = 1 THEN mode - 512 ELSE mode

\* do_copy, 826-893, up to the call of handle_symlink_dst: nxt tells what
\* is left of it, the call and the chown at 894-896 ("symlink"), the chown
\* ("chown"), or nothing; made gets the destination when the match test
\* has failed and the code sets out to make the file.
do_copy_head(S, dst, src, ss, reuse_link) ==
    LET go(T, nxt) == [T EXCEPT !.nxt = nxt, !.made = Append(@, dst)]
        S0 == [S EXCEPT !.nxt = "return"]
        made_dir(M) ==
          IF M.r # 0 THEN go(Ret(M, 1), "return") ELSE go(M, "chown")
        made_node(N) ==
          IF N.r # 0 THEN go(Ret(N, 1), "return") ELSE go(N, "chown")
        device(rm) ==
          IF rm.r # 0 THEN Ret(rm, 1)
          ELSE IF src = DevPtmx
          THEN go(x_symlink(rm, PtsPtmx, dst), "return")
          ELSE made_node(x_mknod(rm, dst, ss.mode, ss.rdev))
        touched(U) ==
          IF U.r # 0 THEN go(Ret(U, 1), "return") ELSE go(U, "symlink")
        linked(L) ==
          IF L.r # 0 THEN go(Ret(L, 1), "return")
          ELSE touched(x_copy_utimes(L, dst, ss))
        link(rm) ==
          IF rm.r # 0 THEN Ret(rm, 1)
          ELSE linked(x_symlink(rm, ss.lnk, dst))
        stated(ds) ==
          IF ds.err = "" /\ Matches(ss, ds.st)
          THEN Ret([S0 EXCEPT !.devino_table =
                        IF ss.type = "reg" THEN Inserted(@, ss.ino, dst)
                        ELSE @], 0)
          ELSE IF ss.type = "reg"
          THEN IF reuse_link /\ ss.ino \in DOMAIN S.devino_table
               THEN go(x_link(S0, S.devino_table[ss.ino], dst), "return")
               ELSE go(x_cp_p([S0 EXCEPT !.devino_table =
                                   IF reuse_link THEN Put(@, ss.ino, dst)
                                   ELSE @], src, dst), "return")
          ELSE IF ss.type = "dir"
          THEN IF ds.err = "" /\ ds.st.type # "dir" THEN perror_fail(S0)
               ELSE made_dir(v_mkdir(S0, dst, PermOf(ss.mode)))
          ELSE IF ss.type = "chr" THEN device(x_rm_f(S0, dst))
          ELSE IF ss.type = "lnk" THEN link(x_rm_f(S0, dst))
          ELSE perror_fail(S0)
    IN  stated(StatOf(S.disk, dst, FALSE))

\* do_copy, 894-896.
do_copy_tail(S, dst, ss) ==
    IF ss.uid # ROOT \/ ss.gid # ROOT
    THEN x_lchown(S, dst, ss.uid, ss.gid)
    ELSE Ret(S, 0)

\* handle_symlink_dst, 743-762: src and dst lose their last name, and one
\* more for each leading "../" of a link longer than three characters.
RECURSIVE ExpandLink(_, _, _, _)
ExpandLink(src, dst, lnk, root) ==
    LET srcslash == RFindSlash(src, Len(src) - 1)
        dstslash == RFindSlash(dst, Len(dst) - 1)
        src1 == SubSeq(src, 1, srcslash)
        dst1 == SubSeq(dst, 1, dstslash)
    IN  IF Len(src) = 1 \/ srcslash = 0 \/ dstslash = 0
           \/ dstslash - 1 < Len(root)
        THEN [call |-> FALSE, src |-> src, dst |-> dst]
        ELSE IF Len(lnk) > 3 /\ SubSeq(lnk, 1, 3) = <<".", ".", "/">>
        THEN ExpandLink(src1, dst1, SubSeq(lnk, 4, Len(lnk)), root)
        ELSE [call |-> TRUE, src |-> src1 \o lnk, dst |-> dst1 \o lnk]

\* handle_symlink_dst, 730-770: whether handle_copy is called, and its
\* arguments src and subdst.
handle_symlink_dst(dst, src, lnk, dstroot, linkdir) ==
    LET root == IF linkdir # <<>>
                   /\ SubSeq(dst, 1, MinOf(Len(dst), Len(dstroot))) # dstroot
                THEN linkdir ELSE dstroot
        e == IF lnk[1] = "/"
             THEN [call |-> TRUE, src |-> lnk, dst |-> root \o lnk]
             ELSE ExpandLink(src, dst, lnk, root)
        sub == SubSeq(e.dst, Len(root) + 1, Len(e.dst))
    IN  [call |-> e.call /\ SubSeq(sub, 1, MinOf(6, Len(sub)))
                            # ProcDir \o <<"/">>,
         src |-> e.src, subdst |-> sub]

\* mountslot::mountable, 550-575, with mount_status: r is 1 for true; a
\* slot that has to wait for the child is put on delayed_mounts.
mountable(S, slot, src, dst) ==
    IF \/ src = ProcDir /\ slot.type = "proc"
       \/ src = DevPtsDir /\ slot.type = "devpts"
    THEN Ret(S, IF mount_status = 2 THEN 1 ELSE 0)
    ELSE IF src = TmpDir /\ slot.type = "tmpfs"
    THEN Ret(S, IF mount_status # 1 THEN 1 ELSE 0)
    ELSE IF src = RunDir /\ slot.type = "tmpfs"
    THEN Ret(S, 0)
    ELSE IF \/ src = SysDir /\ slot.type = "sysfs"
            \/ src = DevDir /\ slot.type = "udev"
            \/ slot.wanted
    THEN IF mount_status = 1
         THEN Ret([S EXCEPT !.delayed_mounts = @ \o <<src, dst>>], 0)
         ELSE Ret(S, 1)
    ELSE Ret(S, 0)

\* mountslot::x_mount, 577-585, with mount(2): res is what the kernel
\* answers, "ok" or an errno; a mount that is no remount and succeeds adds
\* a line to /proc/mounts.
x_mount(S, msx, src, dst, remount, res) ==
    LET S1 == Say(S, IF remount THEN "mount -o remount" ELSE "mount", dst)
        call == [src |-> src, dst |-> dst, remount |-> remount,
                 status |-> mount_status, ok |-> res = "ok"]
        S2 == [S1 EXCEPT !.mlog = Append(@, call)]
    IN  IF dryrun THEN Ret(S1, 0)
        ELSE IF res # "ok" THEN Ret(S2, -1)
        ELSE IF remount THEN Ret(S2, 0)
        ELSE Ret([S2 EXCEPT !.kmounts = Append(@, [msx EXCEPT !.dir = dst])],
                 0)

\* What mount(2) may answer to the calls of one handle_mount: to the first
\* call, to the retry after EBUSY, and to the remount of a bind mount.
MountAnswers ==
    {<<"ok", "ok", "ok">>, <<"EBUSY", "ok", "ok">>, <<"EPERM", "ok", "ok">>}

\* Mounted_never is Mounted with the test left out.
Mounted_never(S, dst) == FALSE

\* handle_mount, 649-654: dst_table has the value 2 for dst.
Mounted(S, dst) == dst \in DOMAIN S.dst_values /\ S.dst_values[dst] > 1

\* handle_mount, 631-685.
handle_mount(S, src, dst, in_child, res) ==
    LET done(X3) == IF X3.r # 0 THEN perror_fail(X3) ELSE Ret(X3, 0)
        bound(X2, msx) ==
          done(IF X2.r = 0 /\ "bind" \in msx.opts
               THEN x_mount(X2, msx, src, dst, TRUE, res[3])
               ELSE X2)
        tried(X1, msx) ==
          bound(IF ~dryrun /\ X1.r # 0 /\ res[1] = "EBUSY" /\ in_child
                THEN x_mount(X1, msx, src, dst, TRUE, res[2])
                ELSE X1, msx)
        mount_it(S2, msx) ==
          tried(x_mount(S2, msx, src, dst, FALSE, res[1]), msx)
        msx_of(it) ==
          [it EXCEPT !.opts =
              @ \cup (IF it.type = "devpts" /\ in_child
                      THEN {"newinstance", "ptmxmode=0666"} ELSE {})
                \cup (IF "bind" \in it.opts /\ in_child
                      THEN {"slave"} ELSE {})]
        entered(S1, it) ==
          mount_it(IF in_child THEN v_ensuredir(S1, dst, 365, TRUE) ELSE S1,
                   msx_of(it))
        checked(M, it) ==
          IF M.r = 0 THEN Ret(M, 0)
          ELSE IF /\ dst \in DOMAIN M.mount_slots
                  /\ M.mount_slots[dst].fsname = it.fsname
                  /\ M.mount_slots[dst].type = it.type
                  /\ M.mount_slots[dst].opts = it.opts
                  /\ ~in_child
          THEN Ret(M, 0)
          ELSE IF Mounted(M, dst) THEN Ret(M, 0)
          ELSE entered([M EXCEPT !.dst_values = Put(@, dst, 2)], it)
    IN  IF src \notin DOMAIN S.mount_slots THEN Ret(S, 0)
        ELSE checked(mountable(S, S.mount_slots[src], src, dst),
                     S.mount_slots[src])

\* The jail directories of the model.
Jails == {<<"/", "j">>, <<"/", "k">>}

\* Inodes of the source tree.
Dir(mode, uid, ino) ==
    [NoStat EXCEPT !.type = "dir", !.mode = mode, !.uid = uid, !.gid = uid,
                   !.mtime = "t0", !.ino = ino]

Reg(mode, uid, ino) ==
    [NoStat EXCEPT !.type = "reg", !.mode = mode, !.uid = uid, !.gid = uid,
                   !.size = 1, !.mtime = "t0", !.ino = ino]

Chr(mode, rdev, ino) ==
    [NoStat EXCEPT !.type = "chr", !.mode = mode, !.rdev = rdev,
                   !.mtime = "t0", !.ino = ino]

Lnk(target, uid, ino) ==
    [NoStat EXCEPT !.type = "lnk", !.mode = 511, !.uid = uid, !.gid = uid,
                   !.size = Len(target), !.mtime = "t0", !.ino = ino,
                   !.lnk = target]

\* The host: /a with a file f of two names, a file h of a user, and links
\* to a sibling (l, k), to themselves (c, and a user's v by way of "."),
\* to each other (a user's m and n), to the parent (u) and through the
\* parent (w); /tmp with
\* the sticky bit; devices; the directories file systems are mounted on;
\* the jails /j and /k and the skeleton /s, which jaildirinfo and main
\* have made before the manifest_ is read.
Host(jmode) ==
    {[p |-> <<"/">>, n |-> Dir(493, 0, 1)],
     [p |-> <<"/", "a">>, n |-> Dir(493, 0, 2)],
     [p |-> <<"/", "a", "/", "f">>, n |-> Reg(420, 0, 3)],
     [p |-> <<"/", "a", "/", "g">>, n |-> Reg(420, 0, 3)],
     [p |-> <<"/", "a", "/", "h">>, n |-> Reg(420, 1000, 4)],
     [p |-> <<"/", "a", "/", "l">>, n |-> Lnk(<<"f">>, 0, 5)],
     [p |-> <<"/", "a", "/", "k">>, n |-> Lnk(<<"/", "a", "/", "f">>, 0, 6)],
     [p |-> <<"/", "a", "/", "c">>, n |-> Lnk(<<"c">>, 0, 7)],
     [p |-> <<"/", "a", "/", "m">>, n |-> Lnk(<<"n">>, 1000, 8)],
     [p |-> <<"/", "a", "/", "n">>, n |-> Lnk(<<"m">>, 1000, 9)],
     [p |-> <<"/", "a", "/", "u">>, n |-> Lnk(<<".", ".">>, 0, 10)],
     [p |-> <<"/", "a", "/", "v">>, n |-> Lnk(<<".", "/", "v">>, 1000, 11)],
     [p |-> <<"/", "a", "/", "w">>,
      n |-> Lnk(<<".", ".", "/", "a", "/", "f">>, 0, 12)],
     [p |-> TmpDir, n |-> Dir(1023, 0, 13)],
     [p |-> DevDir, n |-> Dir(493, 0, 14)],
     [p |-> DevPtmx, n |-> Chr(438, 502, 15)],
     [p |-> <<"/", "d", "e", "v", "/", "n">>, n |-> Chr(438, 103, 16)],
     [p |-> DevPtsDir, n |-> Dir(493, 0, 17)],
     [p |-> SysDir, n |-> Dir(365, 0, 18)],
     [p |-> ProcDir, n |-> Dir(365, 0, 19)],
     [p |-> RunDir, n |-> Dir(493, 0, 20)],
     [p |-> <<"/", "b">>, n |-> Dir(493, 0, 21)],
     [p |-> <<"/", "j">>, n |-> Dir(jmode, 0, 22)],
     [p |-> <<"/", "k">>, n |-> Dir(493, 0, 23)],
     [p |-> <<"/", "s">>, n |-> Dir(493, 0, 24)]}

DiskOf(files) ==
    [k \in {Comps(e.p) : e \in files} |->
        (CHOOSE e \in files : Comps(e.p) = k).n]

\* /proc/mounts of the host, in its order.
Slot(dirname, fsname, type, opts) ==
    [dir |-> dirname, fsname |-> fsname, type |-> type, opts |-> opts,
     wanted |-> FALSE]

HostMounts(tmpfs) ==
    <<Slot(<<"/">>, "/dev/sda1", "ext4", {"rw"}),
      Slot(SysDir, "sysfs", "sysfs", {"rw"}),
      Slot(ProcDir, "proc", "proc", {"rw"}),
      Slot(DevDir, "udev", "udev", {"rw"}),
      Slot(DevPtsDir, "devpts", "devpts", {"rw"}),
      Slot(RunDir, "tmpfs", "tmpfs", {"rw"})>>
    \o (IF tmpfs THEN <<Slot(TmpDir, "tmpfs", "tmpfs", {"rw"})>> ELSE <<>>)

\* A line of the manifest_ after construct_jail, 1172-1184, has taken its
\* flags and its two paths from the text.
Line(src, dst, flags, type) ==
    [src |-> src, dst |-> dst, flags |-> flags, type |-> type]

Plain(src) == Line(src, src, {}, "")

CopyLines ==
    {Plain(e.p) : e \in {x \in Host(493) :
                            /\ Len(x.p) > 2
                            /\ x.p \notin {ProcDir, RunDir, DevPtsDir,
                                            DevDir, SysDir}}}
    \cup {Line(<<"/", "a", "/", "f">>, <<"/", "a", "/", "f">>, {"cp"}, ""),
          Line(<<"/", "a", "/", "l">>, <<"/", "a", "/", "l">>, {"cp"}, "")}

RunLines ==
    {Plain(SysDir), Plain(TmpDir), Plain(RunDir), Plain(DevDir),
     Line(<<"/", "b">>, <<"/", "b">>, {"bind"}, ""),
     Line(<<"/", "b", "/">>, <<"/", "b", "/">>, {"bind"}, ""),
     Line(<<"/", "a">>, <<"/", "b">>, {"bind-ro"}, ""),
     Line(RunDir, RunDir, {"mount"}, "tmpfs"),
     Line(<<"/", "w">>, <<"/", "w">>, {"mount"}, "tmpfs")}

\* The state the wrappers work on, taken from the variables and put back.
Cur ==
    [disk |-> disk, out |-> verbosefile, mods |-> mods, ev |-> exit_value, r |-> 0,
     nxt |-> "return",
     umask |-> IF pc["main"] \in {"construct", "lines"} THEN 0
               ELSE inv.umask,
     dirtable |-> dirtable, devino_table |-> devino_table,
     dst_values |-> dst_values, delayed_mounts |-> delayed_mounts,
     kmounts |-> kmounts, mlog |-> mlog, mount_slots |-> mount_slots,
     made |-> copied]

Commit(S) ==
    /\ disk' = S.disk
    /\ verbosefile' = S.out
    /\ mods' = S.mods
    /\ exit_value' = S.ev
    /\ dirtable' = S.dirtable
    /\ devino_table' = S.devino_table
    /\ dst_values' = S.dst_values
    /\ delayed_mounts' = S.delayed_mounts
    /\ kmounts' = S.kmounts
    /\ mlog' = S.mlog
    /\ mount_slots' = S.mount_slots
    /\ copied' = S.made

\* populate_mount_table, 591-607: once in a process, the last line of
\* /proc/mounts for a directory stays.
RECURSIVE SlotsOf(_, _)
SlotsOf(lines, table) ==
    IF lines = <<>> THEN table
    ELSE SlotsOf(Tail(lines), Put(table, Head(lines).dir, Head(lines)))

populate_mount_table(S) ==
    IF mount_table_populated THEN S
    ELSE [S EXCEPT !.mount_slots = SlotsOf(S.kmounts, @)]

\* main, 3509-3557: the skeleton, the home directory of the jail user in
\* the jail and in the skeleton, mount_status, the umask.
A_Home ==
    /\ pc["main"] = "home"
    /\ LET jailhome == inv.dstroot \o <<"/">> \o inv.owner_home_
           linkhome == inv.linkdir \o inv.owner_home_
           home == <<"/", "h", "o", "m", "e">>
           want_owner == IF action = "do_add" THEN caller_owner ELSE owner_
           want_group == IF action = "do_add" THEN caller_group ELSE group_
           done(L) ==
             /\ Commit(L)
             /\ Goto("main", IF manifest_ # <<>> THEN "construct"
                             ELSE "constructed")
           in_skeleton(L2) ==
             done(IF L2.r > 0 THEN x_lchown(L2, linkhome, owner_, group_)
                  ELSE L2)
           chowned(J, C) ==
             IF J.r < 0 \/ (J.r > 0 /\ C.r # 0)
             THEN Commit(C) /\ Die("main")
             ELSE IF inv.linkdir = <<>> THEN done(C)
             ELSE in_skeleton(v_ensuredir(
                      v_ensuredir(C, inv.linkdir \o home, 493, TRUE),
                      linkhome, 448, TRUE))
           in_jail(J) ==
             chowned(J, IF J.r > 0
                        THEN x_lchown(J, jailhome, want_owner, want_group)
                        ELSE J)
           homes(H) ==
             IF H.r < 0 THEN Commit(H) /\ Die("main")
             ELSE in_jail(v_ensuredir(H, jailhome, 448, TRUE))
           skeleton(K) ==
             IF K.r < 0 THEN Commit(K) /\ Die("main")
             ELSE homes(v_ensuredir(K, inv.dstroot \o <<"/">> \o home,
                                    493, TRUE))
       IN  skeleton(IF inv.linkdir = <<>> THEN Ret(Cur, 0)
                    ELSE v_ensuredir(Cur, inv.linkdir, 493, TRUE))
    /\ mount_status' = IF has_cmd THEN 1 ELSE 0
    /\ UNCHANGED <<addFixed, dryrun, inv, lineno, frames, hret,
                   last_parentdir, mount_table_populated, runs>>

\* construct_jail, 1037-1046.
A_Construct ==
    /\ pc["main"] = "construct"
    /\ LET chowned(O) ==
             IF O.r # 0
             THEN Commit(O) /\ Exit("main", 1)
                  /\ UNCHANGED mount_table_populated
             ELSE /\ Commit(populate_mount_table(
                            [O EXCEPT !.dst_values =
                                Put(@, inv.dstroot \o <<"/">>, 1)]))
                  /\ mount_table_populated' = TRUE
                  /\ Goto("main", "lines")
           chmodded(M) ==
             IF M.r # 0
             THEN Commit(M) /\ Exit("main", 1)
                  /\ UNCHANGED mount_table_populated
             ELSE chowned(x_lchown(M, inv.dstroot, 0, 0))
       IN  chmodded(x_chmod(Cur, inv.dstroot, 493))
    /\ lineno' = 1
    /\ UNCHANGED <<addFixed, dryrun, inv, frames, hret, last_parentdir,
                   mount_status, runs>>

\* construct_jail, 1186-1212: what is done for one line.
A_Line ==
    /\ pc["main"] = "lines"
    /\ frames = <<>>
    /\ lineno <= Len(manifest_)
    /\ LET ln == manifest_[lineno]
           dst == inv.dstroot \o ln.dst
           ms == [dir |-> ln.src, fsname |-> ln.src,
                  type |-> IF ln.flags \cap {"bind", "bind-ro"} # {}
                           THEN "none" ELSE ln.type,
                  opts |-> IF "bind-ro" \in ln.flags
                           THEN {"bind", "rec", "unbindable", "ro"}
                           ELSE IF "bind" \in ln.flags
                           THEN {"bind", "rec", "unbindable"}
                           ELSE {},
                  wanted |-> TRUE]
       IN  IF ln.flags \cap {"bind", "bind-ro", "mount"} # {}
           THEN /\ \E res \in MountAnswers :
                     Commit(handle_mount(
                         v_ensuredir([Cur EXCEPT !.mount_slots =
                                         Put(@, ln.src, ms)],
                                     dst, 365, TRUE),
                         ln.src, dst, FALSE, res))
                /\ UNCHANGED frames
           ELSE /\ Commit(Cur)
                /\ frames' = <<[src |-> ln.src, subdst |-> ln.dst,
                                flags |-> ln.flags, ph |-> "enter",
                                ss |-> NoStat]>>
    /\ lineno' = lineno + 1
    /\ UNCHANGED <<pc, exitcode, addFixed, dryrun, inv, hret,
                   last_parentdir, mount_table_populated, mount_status,
                   runs>>

\* construct_jail, 1215, and main, 3558-3583: exit(1) when a call has
\* failed, else the command of a run, or exit(0).
A_Return ==
    /\ \/ pc["main"] = "lines" /\ frames = <<>> /\ lineno > Len(manifest_)
       \/ pc["main"] = "constructed"
    /\ IF pc["main"] = "lines" /\ exit_value # 0 THEN Exit("main", 1)
       ELSE IF has_cmd /\ ~dryrun THEN Goto("main", "exec")
       ELSE Exit("main", 0)
    /\ UNCHANGED <<addFixed, addState, dryrun, exit_value, inv, lineno,
                   frames, hret, last_parentdir, mount_table_populated,
                   mount_status, runs>>

\* The call of handle_copy in progress, its destination, and its return.
Top == frames[Len(frames)]

DstOf(f) == inv.dstroot \o path_noendslash(f.subdst)

Return(r) ==
    /\ frames' = SubSeq(frames, 1, Len(frames) - 1)
    /\ hret' = r

Phase(ph) ==
    /\ frames' = [frames EXCEPT ![Len(frames)].ph = ph]
    /\ UNCHANGED hret

Call(ph, src, subdst) ==
    /\ frames' = Append([frames EXCEPT ![Len(frames)].ph = ph],
                        [src |-> src, subdst |-> subdst, flags |-> {},
                         ph |-> "enter", ss |-> NoStat])
    /\ UNCHANGED hret

\* Entered_never is Entered with the test left out.
Entered_never(dst) == FALSE

\* handle_copy, 918: dst is a key of dst_table.
Entered(dst) == dst \in DOMAIN dst_values

\* handle_copy, 903-937: the assertions, the slashes at the end, the test
\* and the entry of dst_table, the call for the parent directory.
HC_Enter ==
    /\ frames # <<>>
    /\ Top.ph = "enter"
    /\ LET src == path_noendslash(Top.src)
           subdst == path_noendslash(Top.subdst)
           dstroot == inv.dstroot
           dst == dstroot \o subdst
           dst_parentdir == path_noendslash(path_parentdir(dst))
           entered == Put(dst_values, dst, 1)
       IN  IF \/ Top.subdst[1] # "/"
              \/ Len(Top.subdst) > 1 /\ Top.subdst[2] = "/"
              \/ dstroot[Len(dstroot)] = "/"
              \/ SubSeq(Top.subdst, 1,
                        MinOf(Len(Top.subdst), Len(dstroot))) = dstroot
           THEN /\ Exit("main", 128 + SIGABRT)
                /\ UNCHANGED <<frames, hret, dst_values, last_parentdir>>
           ELSE /\ UNCHANGED <<pc, exitcode>>
                /\ IF Entered(dst)
                   THEN /\ Return(1)
                        /\ UNCHANGED <<dst_values, last_parentdir>>
                   ELSE /\ dst_values' = entered
                        /\ IF /\ dst_parentdir # last_parentdir
                              /\ Len(dst_parentdir) > Len(dstroot)
                           THEN /\ last_parentdir' = dst_parentdir
                                /\ IF dst_parentdir \notin DOMAIN entered
                                   THEN Call("parent",
                                          path_noendslash(path_parentdir(src)),
                                          SubSeq(dst_parentdir,
                                                 Len(dstroot) + 1,
                                                 Len(dst_parentdir)))
                                   ELSE Phase("lstat")
                           ELSE /\ UNCHANGED last_parentdir
                                /\ Phase("lstat")
    /\ UNCHANGED <<addFixed, dryrun, exit_value, inv, lineno,
                   mount_table_populated, mount_status, runs, disk, verbosefile,
                   mods, dirtable, devino_table, delayed_mounts, kmounts,
                   mlog, mount_slots, copied>>

\* handle_copy, 930-936: the call for the parent directory has returned.
HC_Parent ==
    /\ frames # <<>>
    /\ Top.ph = "parent"
    /\ IF hret # 0 THEN Return(hret) ELSE Phase("lstat")
    /\ UNCHANGED <<pc, exitcode, addFixed, addState, dryrun, exit_value,
                   inv, lineno, last_parentdir, mount_table_populated,
                   mount_status, runs>>

\* What is left of do_copy after its head T: the call of
\* handle_symlink_dst when there is one, else the chown.
Rest(T, f, dst) ==
    LET linked(h) ==
          IF h.call
          THEN [S |-> T, call |-> TRUE, src |-> h.src, subdst |-> h.subdst]
          ELSE [S |-> do_copy_tail(T, dst, f.ss), call |-> FALSE,
                src |-> <<>>, subdst |-> <<>>]
    IN  IF T.nxt = "symlink"
        THEN linked(handle_symlink_dst(dst, path_noendslash(f.src),
                                       f.ss.lnk, inv.dstroot, inv.linkdir))
        ELSE [S |-> IF T.nxt = "return" THEN T
                    ELSE do_copy_tail(T, dst, f.ss),
              call |-> FALSE, src |-> <<>>, subdst |-> <<>>]

\* handle_copy, 939-946: lstat of the source, and the copy into the
\* skeleton, whose result is dropped.
HC_Skel ==
    /\ frames # <<>>
    /\ Top.ph = "lstat"
    /\ LET src == path_noendslash(Top.src)
           dst == inv.linkdir \o path_noendslash(Top.subdst)
           copied_to(R, f) ==
             /\ Commit(R.S)
             /\ UNCHANGED hret
             /\ frames' =
                  IF R.call
                  THEN Append([frames EXCEPT ![Len(frames)] =
                                  [f EXCEPT !.ph = "skel_tail"]],
                              [src |-> R.src, subdst |-> R.subdst,
                               flags |-> {}, ph |-> "enter",
                               ss |-> NoStat])
                  ELSE [frames EXCEPT ![Len(frames)] =
                           [f EXCEPT !.ph = "jail"]]
           stated(s, f) ==
             IF s.err # ""
             THEN Commit(perror_fail(Cur)) /\ Return(1)
             ELSE IF inv.linkdir = <<>>
             THEN /\ Commit(Cur)
                  /\ frames' = [frames EXCEPT ![Len(frames)] =
                                   [f EXCEPT !.ph = "jail"]]
                  /\ UNCHANGED hret
             ELSE copied_to(Rest(do_copy_head(Cur, dst, src, s.st, TRUE),
                                 f, dst), f)
           got(s) == stated(s, [Top EXCEPT !.ss = s.st])
       IN  got(StatOf(disk, src, FALSE))
    /\ UNCHANGED <<pc, exitcode, addFixed, dryrun, inv, lineno,
                   last_parentdir, mount_table_populated, mount_status,
                   runs>>

\* do_copy, 894-896, for the skeleton, after handle_symlink_dst.
HC_SkelTail ==
    /\ frames # <<>>
    /\ Top.ph = "skel_tail"
    /\ Commit(do_copy_tail(Cur, inv.linkdir \o path_noendslash(Top.subdst),
                           Top.ss))
    /\ Phase("jail")
    /\ UNCHANGED <<pc, exitcode, addFixed, dryrun, inv, lineno,
                   last_parentdir, mount_table_populated, mount_status,
                   runs>>

\* handle_copy, 948-955, once do_copy has returned r in S.
Finish(S) ==
    LET src == path_noendslash(Top.src)
    IN  IF S.r # 0 THEN Commit(S) /\ Return(1)
        ELSE IF Top.ss.type = "dir"
        THEN \E res \in MountAnswers :
               \E M \in {handle_mount(S, src, DstOf(Top), FALSE, res)} :
                  Commit(M) /\ Return(M.r)
        ELSE Commit(S) /\ Return(0)

\* handle_copy, 948: the copy into the jail, up to the call of
\* handle_symlink_dst.
HC_Jail ==
    /\ frames # <<>>
    /\ Top.ph = "jail"
    /\ LET src == path_noendslash(Top.src)
           dst == DstOf(Top)
           copied_to(R) ==
             IF R.call
             THEN Commit(R.S) /\ Call("jail_tail", R.src, R.subdst)
             ELSE Finish(R.S)
       IN  copied_to(Rest(do_copy_head(Cur, dst, src, Top.ss,
                                       "cp" \notin Top.flags), Top, dst))
    /\ UNCHANGED <<pc, exitcode, addFixed, dryrun, inv, lineno,
                   last_parentdir, mount_table_populated, mount_status,
                   runs>>

\* do_copy, 894-896, for the jail, and the end of handle_copy.
HC_JailTail ==
    /\ frames # <<>>
    /\ Top.ph = "jail_tail"
    /\ Finish(do_copy_tail(Cur, DstOf(Top), Top.ss))
    /\ UNCHANGED <<pc, exitcode, addFixed, dryrun, inv, lineno,
                   last_parentdir, mount_table_populated, mount_status,
                   runs>>

\* jailownerinfo::exec with exec_go, 2409-2423, in the process clone has
\* made: mount_status, and the directory pivot_root will put the old
\* root on.
X_Clone ==
    /\ pc["main"] = "exec"
    /\ pc["child"] = "none"
    /\ mount_status' = 2
    /\ LET D == v_ensuredir(Cur, inv.dstroot
                                 \o <<"/", "m", "n", "t", "/", ".", "p", "a", "r",
                                   "e", "n", "t">>,
                            511, TRUE)
       IN  /\ Commit(D)
           /\ pc' = [pc EXCEPT !["main"] = "wait",
                               !["child"] = IF D.r < 0 THEN "exited"
                                            ELSE "rslave"]
           /\ exitcode' = [exitcode EXCEPT !["child"] =
                              IF D.r < 0 THEN DieStatus ELSE @]
    /\ UNCHANGED <<addFixed, dryrun, inv, lineno, frames, hret,
                   last_parentdir, mount_table_populated, runs>>

\* exec_go, 2425-2436: the root is made a slave mount; populate_mount_table.
X_Rslave ==
    /\ pc["child"] = "rslave"
    /\ \E ok \in BOOLEAN :
         LET S == [Say(Cur, "mount --make-rslave", <<"/">>) EXCEPT !.mlog =
                      Append(@, [src |-> <<>>, dst |-> <<"/">>,
                                 remount |-> FALSE, status |-> mount_status,
                                 ok |-> ok])]
         IN  IF ok
             THEN /\ Commit(populate_mount_table(S))
                  /\ Goto("child", "delayed")
             ELSE /\ Commit(S)
                  /\ Die("child")
    /\ mount_table_populated' = TRUE
    /\ lineno' = 1
    /\ UNCHANGED <<addFixed, dryrun, inv, frames, hret, last_parentdir,
                   mount_status, runs>>

\* exec_go, 2437-2439: the delayed mounts, in their order.
X_Delayed ==
    /\ pc["child"] = "delayed"
    /\ IF lineno > Len(delayed_mounts)
       THEN /\ Goto("child", "fixed")
            /\ lineno' = 1
            /\ UNCHANGED <<addState, exit_value>>
       ELSE /\ \E res \in MountAnswers :
                 Commit(handle_mount(Cur, delayed_mounts[lineno],
                                     delayed_mounts[lineno + 1], TRUE, res))
            /\ lineno' = lineno + 2
            /\ UNCHANGED <<pc, exitcode>>
    /\ UNCHANGED <<addFixed, dryrun, inv, frames, hret, last_parentdir,
                   mount_table_populated, mount_status, runs>>

\* exec_go, 2441-2444: the directories every jail gets.
FixedMounts == <<ProcDir, DevPtsDir, TmpDir, RunDir>>

X_Fixed ==
    /\ pc["child"] = "fixed"
    /\ \E res \in MountAnswers :
         Commit(handle_mount(Cur, FixedMounts[lineno],
                             inv.dstroot \o FixedMounts[lineno], TRUE, res))
    /\ lineno' = lineno + 1
    /\ IF lineno = Len(FixedMounts) THEN Goto("child", "pivot")
       ELSE UNCHANGED <<pc, exitcode>>
    /\ UNCHANGED <<addFixed, dryrun, inv, frames, hret, last_parentdir,
                   mount_table_populated, mount_status, runs>>

\* What a finished invocation leaves for the next one to be compared with.
Summary ==
    [action |-> action, dstroot |-> inv.dstroot, dryrun |-> dryrun,
     status |-> exitcode["main"], mods |-> mods]

\* pa-jail is started again with the same manifest_, user and skeleton, on
\* one of the jails, dry or not: a new process, the same file system.
A_Again ==
    /\ pc["main"] = "exited"
    /\ action = "do_add"
    /\ Len(runs) + 1 < MaxRuns
    /\ runs' = Append(runs, Summary)
    /\ \E jail \in Jails, dry \in BOOLEAN :
         /\ jail = inv.dstroot \/ ~dry
         /\ inv' = [inv EXCEPT !.dstroot = jail]
         /\ dryrun' = dry
    /\ pc' = [pc EXCEPT !["main"] = "home"]
    /\ exitcode' = [exitcode EXCEPT !["main"] = -1]
    /\ exit_value' = 0
    /\ verbosefile' = <<>>
    /\ mods' = 0
    /\ dirtable' = <<>>
    /\ devino_table' = <<>>
    /\ dst_values' = <<>>
    /\ delayed_mounts' = <<>>
    /\ mlog' = <<>>
    /\ mount_slots' = <<>>
    /\ copied' = <<>>
    /\ lineno' = 0
    /\ frames' = <<>>
    /\ hret' = 0
    /\ last_parentdir' = <<>>
    /\ mount_table_populated' = FALSE
    /\ mount_status' = 0
    /\ UNCHANGED <<addFixed, disk, kmounts>>


AddInit ==
    /\ pc = [p \in Procs |-> IF p = "main" THEN "home" ELSE "none"]
    /\ exitcode = [p \in Procs |-> -1]
    /\ cred = [p \in Procs |-> NoCred]
    /\ foreground_ = FALSE
    /\ action \in {"do_add", "do_run"}
    /\ dryrun \in IF action = "do_add" THEN {FALSE} ELSE BOOLEAN
    /\ has_user = TRUE
    /\ has_cmd = (action = "do_run")
    /\ pidfile = FALSE
    /\ caller_owner \in IF action = "do_add" THEN CallerUids ELSE {1000}
    /\ caller_group = IF caller_owner = ROOT THEN 0 ELSE 100
    /\ owner_ = 1001
    /\ group_ = 101
    /\ goer = "main"
    /\ syscalls = {}
    /\ idlog = <<>>
    /\ tries = 0
    /\ exit_value = 0
    /\ failed = {}
    /\ DirNull
    /\ ConfNull
    /\ RmNull
    /\ LoopNull
    /\ StrNull
    /\ BufNull
    /\ FnNull
    /\ disk = DiskOf(Host(448))
    /\ kmounts = HostMounts(action = "do_run")
    /\ inv \in [dstroot : {<<"/", "j">>},
                linkdir : IF action = "do_add" THEN {<<>>, <<"/", "s">>}
                          ELSE {<<>>},
                owner_home_ : {<<"/", "h", "o", "m", "e", "/", "u">>},
                umask : {18}]
    /\ manifest_ \in SeqsUpTo(IF action = "do_add" THEN CopyLines
                             ELSE RunLines, MaxManifest)
    /\ lineno = 0
    /\ frames = <<>>
    /\ hret = 0
    /\ dst_values = <<>>
    /\ devino_table = <<>>
    /\ last_parentdir = <<>>
    /\ dirtable = <<>>
    /\ mount_slots = <<>>
    /\ mount_table_populated = FALSE
    /\ delayed_mounts = <<>>
    /\ mount_status = 0
    /\ verbosefile = <<>>
    /\ mods = 0
    /\ mlog = <<>>
    /\ copied = <<>>
    /\ runs = <<>>

AddNext ==
    \/ A_Home
    \/ A_Construct
    \/ A_Line
    \/ A_Return
    \/ HC_Enter
    \/ HC_Parent
    \/ HC_Skel
    \/ HC_SkelTail
    \/ HC_Jail
    \/ HC_JailTail
    \/ X_Clone
    \/ X_Rslave
    \/ X_Delayed
    \/ X_Fixed
    \/ A_Again

SpecAdd == AddInit /\ [][AddNext]_vars

\* ---------------------------------------------------------------------
\* Properties of add and of the mounts of run, checked in SpecAdd.

\* An invocation of add has ended that follows a successful add made on
\* the same jail with the same manifest, user and skeleton.
SecondAddEnded ==
    /\ Len(runs) = 1
    /\ runs[1].action = "do_add"
    /\ ~runs[1].dryrun
    /\ runs[1].status = 0
    /\ runs[1].dstroot = inv.dstroot
    /\ pc["main"] = "exited"

\* The lines of verbosefile that are not the preparation of the jail's
\* root, which construct_jail prints in every invocation.
ManifestActions ==
    SelectSeq(verbosefile, LAMBDA a : a.path # inv.dstroot)

\* C22: a second add with the same manifest, user and skeleton on an
\* unchanged source changes nothing in the file system, and as a verbose
\* dry run prints no action for any entry of the manifest, whatever the
\* entries are, sticky directories and /dev/ptmx included.
C22_SecondAddIsIdle ==
    SecondAddEnded =>
        IF dryrun THEN ManifestActions = <<>> ELSE mods = 0

\* The first add of a behaviour has ended without a failure.
FirstAddDone ==
    /\ runs = <<>>
    /\ action = "do_add"
    /\ pc["main"] = "exited"
    /\ exitcode["main"] = 0

\* The entry of line i is what the manifest says of its destination.
OnlyEntry(i) ==
    \A j \in DOMAIN manifest_ :
        manifest_[j].dst = manifest_[i].dst
            => manifest_[j].flags = manifest_[i].flags

\* C24: for a manifest entry whose source is a symbolic link, add makes
\* the destination a copy of the file the link leads to, and no symbolic
\* link, when the entry has the flag cp, and makes it a symbolic link
\* with the text of the source when the entry has no flag.
C24_CpCopiesLinkTarget ==
    FirstAddDone =>
        \A i \in DOMAIN manifest_ :
            LET ln == manifest_[i]
                src == StatOf(disk, ln.src, FALSE)
                target == StatOf(disk, ln.src, TRUE)
                dst == StatOf(disk, inv.dstroot \o ln.dst, FALSE)
            IN  (src.err = "" /\ src.st.type = "lnk" /\ OnlyEntry(i)) =>
                    IF "cp" \in ln.flags
                    THEN target.err = "" =>
                            /\ dst.err = ""
                            /\ dst.st.type = target.st.type
                    ELSE /\ dst.err = ""
                         /\ dst.st.type = "lnk"
                         /\ dst.st.lnk = src.st.lnk

\* An add that is no dry run has ended without a failure, its manifest
\* having at least one line.
AddDone ==
    /\ action = "do_add"
    /\ ~dryrun
    /\ manifest_ # <<>>
    /\ pc["main"] = "exited"
    /\ exitcode["main"] = 0

\* JAILDIR/home/USER as main names it, and what lstat says of it and of
\* JAILDIR.
JailHome == inv.dstroot \o <<"/">> \o inv.owner_home_

HomeStat == StatOf(disk, JailHome, FALSE)

RootStat == StatOf(disk, inv.dstroot, FALSE)

RootIsRoots ==
    /\ RootStat.err = ""
    /\ RootStat.st.uid = ROOT
    /\ RootStat.st.gid = ROOT
    /\ RootStat.st.mode = 493

\* This invocation has made JAILDIR/home/USER.
HomeMade ==
    \E i \in DOMAIN verbosefile :
        verbosefile[i] = [cmd |-> "mkdir -m", path |-> JailHome]

\* C21 as stated: after a successful add with a manifest, whoever calls,
\* JAILDIR belongs to root with mode 0755 and JAILDIR/home/USER is a
\* directory of mode 0700 that belongs to USER and USER's group.
C21_HomeIsUsers ==
    AddDone =>
        /\ RootIsRoots
        /\ HomeStat.err = ""
        /\ HomeStat.st.type = "dir"
        /\ HomeStat.st.mode = 448
        /\ HomeStat.st.uid = owner_
        /\ HomeStat.st.gid = group_

\* C21 as amended: after a successful add with a manifest, whoever calls,
\* JAILDIR belongs to root with mode 0755 and JAILDIR/home/USER is a
\* directory; when this add has made it, it has mode 0700 and belongs to
\* the caller and the caller's group.
C21_HomeIsCallers ==
    AddDone =>
        /\ RootIsRoots
        /\ HomeStat.err = ""
        /\ HomeStat.st.type = "dir"
        /\ HomeMade =>
              /\ HomeStat.st.mode = 448
              /\ HomeStat.st.uid = caller_owner
              /\ HomeStat.st.gid = caller_group

\* An add called by a user who is not root has made the home directory.
C21_Witness ==
    /\ AddDone
    /\ HomeMade
    /\ caller_owner # ROOT
    /\ HomeStat.st.uid = caller_owner

\* The key k of the file system is below the directory root, and the
\* names that lead from root to it.
Under(root, k) ==
    /\ Len(k) > Len(Comps(root))
    /\ SubSeq(k, 1, Len(Comps(root))) = Comps(root)

RestOf(root, k) == SubSeq(k, Len(Comps(root)) + 1, Len(k))

\* An add with a skeleton that is no dry run has ended without a failure.
SkeletonAddDone ==
    /\ AddDone
    /\ inv.linkdir # <<>>

\* The regular file s of the skeleton has a regular file of the same
\* name in the jail.
InBoth(s, jail) ==
    /\ Under(inv.linkdir, s)
    /\ disk[s].type = "reg"
    /\ Comps(jail) \o RestOf(inv.linkdir, s) \in DOMAIN disk
    /\ disk[Comps(jail) \o RestOf(inv.linkdir, s)].type = "reg"

OneInode(s, jail) ==
    disk[Comps(jail) \o RestOf(inv.linkdir, s)].ino = disk[s].ino

\* The manifest has an entry flagged cp for the names rest.
CpEntry(rest) ==
    \E i \in DOMAIN manifest_ :
        /\ "cp" \in manifest_[i].flags
        /\ Comps(manifest_[i].dst) = rest

\* C23 as stated: after every add with one skeleton, each regular file
\* that is in the skeleton and in a jail is one inode in both places,
\* whatever the manifest, entries flagged cp included.
C23_AllFilesShared ==
    SkeletonAddDone =>
        \A s \in DOMAIN disk, jail \in Jails :
            InBoth(s, jail) => OneInode(s, jail)

\* C23 as amended: after every add with one skeleton, each regular file
\* that is in the skeleton and in a jail is one inode in both places,
\* unless it is the destination of an entry flagged cp.
C23_UnflaggedFilesShared ==
    SkeletonAddDone =>
        \A s \in DOMAIN disk, jail \in Jails :
            (InBoth(s, jail) /\ ~CpEntry(RestOf(inv.linkdir, s)))
                => OneInode(s, jail)

\* Two jails made from one skeleton have a file of the skeleton each.
C23_Witness ==
    /\ SkeletonAddDone
    /\ \E s \in DOMAIN disk :
          \A jail \in Jails : InBoth(s, jail) /\ OneInode(s, jail)

\* The calls of mount(2) that mount a file system: not the remounts, and
\* not the call that makes the root a slave.
FirstMounts == SelectSeq(mlog, LAMBDA c : c.src # <<>> /\ ~c.remount)

\* delayed_mounts as pairs of source and destination.
Pairs(seq) == [i \in 1..(Len(seq) \div 2) |-> <<seq[2 * i - 1], seq[2 * i]>>]

\* The pairs the child has gone through.
DelayedSeen ==
    IF pc["child"] = "delayed"
    THEN SubSeq(Pairs(delayed_mounts), 1, (lineno - 1) \div 2)
    ELSE IF pc["child"] \in {"fixed", "pivot"} THEN Pairs(delayed_mounts)
    ELSE <<>>

\* The first pair of each destination, in the order of the pairs.
RECURSIVE FirstPerDst(_, _)
FirstPerDst(pairs, seen) ==
    IF pairs = <<>> THEN <<>>
    ELSE IF Head(pairs)[2] \in seen THEN FirstPerDst(Tail(pairs), seen)
    ELSE <<Head(pairs)>>
         \o FirstPerDst(Tail(pairs), seen \cup {Head(pairs)[2]})

\* The destinations exec_go mounts after the delayed ones.
FixedDsts == {inv.dstroot \o FixedMounts[i] : i \in DOMAIN FixedMounts}

\* The mounts mountable decides by their name before it looks at wanted.
NamedMount(src, type) ==
    <<src, type>> \in {<<ProcDir, "proc">>, <<DevPtsDir, "devpts">>,
                       <<TmpDir, "tmpfs">>, <<RunDir, "tmpfs">>}

\* Line i of the manifest declares a mount that has to wait for the child:
\* a bind or mount entry that is none of the named mounts, or the
\* directory /sys or /dev of the host.
Deferred(i) ==
    LET ln == manifest_[i]
    IN  \/ ln.flags \cap {"bind", "bind-ro"} # {}
        \/ "mount" \in ln.flags /\ ~NamedMount(ln.src, ln.type)
        \/ ln.flags = {} /\ ln.src \in {SysDir, DevDir}

\* The manifest of a run has been read and the command is to be started.
RunConstructed ==
    /\ action = "do_run"
    /\ ~dryrun
    /\ pc["main"] \in {"exec", "wait"}

LinkLines ==
    {ln \in CopyLines :
        StatOf(DiskOf(Host(448)), ln.src, FALSE).st.type = "lnk"}

\* The adds of SpecAdd whose manifest names links only.
LinkInit ==
    /\ AddInit
    /\ action = "do_add"
    /\ caller_owner = ROOT
    /\ \A i \in DOMAIN manifest_ : manifest_[i] \in LinkLines

LinkNext ==
    \/ A_Home
    \/ A_Construct
    \/ A_Line
    \/ A_Return
    \/ HC_Enter
    \/ HC_Parent
    \/ HC_Skel
    \/ HC_SkelTail
    \/ HC_Jail
    \/ HC_JailTail
    \/ A_Again

\* pa-jail has a statement to execute: main has not come to exit.
Running == pc["main"] \in {"home", "construct", "lines", "constructed"}

\* A process that has a statement to execute executes it: the weak
\* fairness WF_vars(LinkNext), with Running written for the enabledness
\* of LinkNext; every state with Running has a step that changes vars.
SpecLink ==
    /\ LinkInit
    /\ [][LinkNext]_vars
    /\ ([]<>(~Running) \/ []<><<TRUE>>_vars)

\* No destination is in copied twice, and a destination in the jail is in
\* dst_table when work on it has started.
MadeOnce ==
    /\ \A i, j \in DOMAIN copied : copied[i] = copied[j] => i = j
    /\ \A i \in DOMAIN copied :
          Under(inv.dstroot, Comps(copied[i]))
              => copied[i] \in DOMAIN dst_values

MaxName == 4
sizeof_buf == 4

\* Characters of the names: the slash, the period, a letter, the tilde and
\* the blank.
NameChars == {"/", ".", "a", "~", " "}

\* check_filename, 1502: allowed_chars, as far as NameChars has them.
allowed_chars == {"/", ".", "a", "~"}

\* What the memory holds after the terminating byte of name; the byte 0
\* follows it.
Beyond == {<<>>, <<"/">>, <<"/", "a">>, <<".", ".">>, <<" ">>}

\* The byte at s: mem is the string, its terminating 0 and what follows.
ByteAt(mem, s) == IF s \in 1..Len(mem) THEN mem[s] ELSE ""

\* check_filename, 1511-1523: the loop from the byte at s on, out being
\* what has been stored in buf; <<>> when it returns the empty string.
RECURSIVE CopyName(_, _, _)
CopyName(mem, s, out) ==
    LET RECURSIVE slashes(_)
        slashes(t) ==
          IF ByteAt(mem, t) = "/" /\ ByteAt(mem, t + 1) = "/"
          THEN slashes(t + 1) ELSE t
    IN  IF ByteAt(mem, s) = "" THEN out
        ELSE IF /\ ByteAt(mem, s) = "."
                /\ ByteAt(mem, s + 1) \in {"/", ""}
                /\ s # 1
                /\ ByteAt(mem, s - 1) = "/"
        THEN CopyName(mem, slashes(s + 1) + 1, out)
        ELSE IF /\ ByteAt(mem, s) = "."
                /\ ByteAt(mem, s + 1) = "."
                /\ ByteAt(mem, s + 2) \in {"/", ""}
                /\ (s = 1 \/ ByteAt(mem, s - 1) = "/")
        THEN <<>>
        ELSE CopyName(mem, slashes(s) + 1, Append(out, ByteAt(mem, s)))

\* check_filename, 1524-1527.
RECURSIVE TrimSlashes(_)
TrimSlashes(out) ==
    IF Len(out) > 1 /\ out[Len(out)] = "/"
    THEN TrimSlashes(SubSeq(out, 1, Len(out) - 1)) ELSE out

\* check_filename, 1501-1528; beyond is what follows the terminating 0 of
\* name in memory, which the loop reads when name ends in "/.".
check_filename(name, beyond) ==
    IF \/ \E i \in DOMAIN name : name[i] \notin allowed_chars
       \/ name = <<>>
       \/ name[1] = "~"
       \/ Len(name) >= sizeof_buf
    THEN <<>>
    ELSE TrimSlashes(CopyName(name \o <<"">> \o beyond \o <<"">>, 1, <<>>))

\* The variables no application of a function changes.
fnFixed == <<sharedVars, runVars, dir, permdir, nodes, last_pos, fd, parentfd,
             dryrunning, doforce, opened, made, confVars, rmVars, strVars,
             bufVars, addVars, loopVars, bindVars>>

\* Every variable of the other specifications at rest.
FnRest ==
    /\ pc = [p \in Procs |-> "none"]
    /\ exitcode = [p \in Procs |-> -1]
    /\ cred = [p \in Procs |-> NoCred]
    /\ foreground_ = FALSE
    /\ action = "do_run"
    /\ dryrun = FALSE
    /\ has_user = TRUE
    /\ has_cmd = TRUE
    /\ pidfile = FALSE
    /\ caller_owner = 0
    /\ caller_group = 0
    /\ owner_ = ROOT
    /\ group_ = ROOT
    /\ goer = "main"
    /\ syscalls = {}
    /\ idlog = <<>>
    /\ tries = 0
    /\ exit_value = 0
    /\ failed = {}
    /\ DirNull
    /\ ConfNull
    /\ RmNull
    /\ LoopNull
    /\ StrNull
    /\ BufNull
    /\ AddNull

CheckFilename ==
    /\ fn = "none"
    /\ \E beyond \in Beyond : fout' = check_filename(fin, beyond)
    /\ fn' = "check_filename"
    /\ UNCHANGED <<fin, fnFixed>>

ParentDir ==
    /\ fn = "none"
    /\ fout' = path_parentdir(fin)
    /\ fn' = "path_parentdir"
    /\ UNCHANGED <<fin, fnFixed>>

PathInit ==
    /\ FnRest
    /\ BindNull
    /\ fn = "none"
    /\ fin \in SeqsUpTo(NameChars, MaxName)
    /\ fout = <<>>

PathNext ==
    \/ CheckFilename
    \/ ParentDir

SpecPath == PathInit /\ [][PathNext]_vars

\* s has a component equal to c.
HasComponent(s, c) ==
    \E i \in 1..Len(s) : \E j \in i..Len(s) :
        /\ SubSeq(s, i, j) = c
        /\ (i = 1 \/ s[i - 1] = "/")
        /\ (j = Len(s) \/ s[j + 1] = "/")

\* The names the specification of check_filename rejects.
NameRefused(s) ==
    \/ s = <<>>
    \/ Len(s) >= sizeof_buf
    \/ s[1] = "~"
    \/ \E i \in DOMAIN s : s[i] \notin allowed_chars \cup {" "}
    \/ HasComponent(s, <<".">>)
    \/ HasComponent(s, <<".", ".">>)

\* C31: check_filename(s) is empty exactly when s is empty, too long, begins
\* with a tilde, has a byte outside the allowlist (blank included), or has
\* a component "." or ".."; an accepted result has no "//" and no trailing
\* slash unless it is "/".
C31_CheckFilenameNormalises ==
    fn = "check_filename" =>
        /\ (fout = <<>>) <=> NameRefused(fin)
        /\ fout # <<>> =>
              /\ \A i \in 1..(Len(fout) - 1) :
                    ~(fout[i] = "/" /\ fout[i + 1] = "/")
              /\ fout[Len(fout)] = "/" => fout = <<"/">>

\* C40: path_parentdir(p) is a non-empty prefix of p that ends in a slash.
C40_ParentDirEndsInSlash ==
    fn = "path_parentdir" =>
        /\ fout # <<>>
        /\ Len(fout) <= Len(fin)
        /\ fout = SubSeq(fin, 1, Len(fout))
        /\ fout[Len(fout)] = "/"

(***************************************************************************)
(* SpecMountopt: the option flags of a mountslot, made by the constructor  *)
(* from an option string or by calls of add_mountopt.  An option string is *)
(* the sequence of its options; the flags are the set of the bits set.     *)
(***************************************************************************)

\* Bound: the options of one option string.
MaxOpts == 3

\* Options of the model: three of mountargs and one that is not in it.
MountOpts == {"ro", "rw", "nosuid", "size"}

\* mountargs, 402-436: the value of each name, as the set of its bits.
mountargs == [name \in {"ro", "rw", "nosuid"} |->
                 IF name = "rw" THEN {} ELSE {name}]

\* find_mountarg, 437-445.
find_mountarg(name) == name \in DOMAIN mountargs

\* mountslot::mountslot, 465-478: the slot after the options from the i-th.
RECURSIVE mountslot(_, _, _)
mountslot(mopt, i, slot) ==
    IF i > Len(mopt) THEN slot
    ELSE IF find_mountarg(mopt[i])
    THEN mountslot(mopt, i + 1,
                   [slot EXCEPT !.opts = @ \cup mountargs[mopt[i]]])
    ELSE mountslot(mopt, i + 1, [slot EXCEPT !.data = Append(@, mopt[i])])

\* mountslot::add_mountopt, 513-541.
add_mountopt(slot, inopt) ==
    IF find_mountarg(inopt)
    THEN IF mountargs[inopt] # {}
         THEN [slot EXCEPT !.opts = @ \cup mountargs[inopt]]
         ELSE [slot EXCEPT !.opts = @ \ {"ro"}]
    ELSE [slot EXCEPT
            !.data = Append(SelectSeq(@, LAMBDA o : o # inopt), inopt)]

\* add_mountopt called with each option of mopt from the i-th on.
RECURSIVE AddAll(_, _, _)
AddAll(mopt, i, slot) ==
    IF i > Len(mopt) THEN slot
    ELSE AddAll(mopt, i + 1, add_mountopt(slot, mopt[i]))

\* mountslot(), 455.
EmptySlot == [opts |-> {}, data |-> <<>>]

MountslotCtor ==
    /\ fn = "none"
    /\ fout' = mountslot(fin, 1, EmptySlot)
    /\ fn' = "mountslot"
    /\ UNCHANGED <<fin, fnFixed>>

AddMountopts ==
    /\ fn = "none"
    /\ fout' = AddAll(fin, 1, EmptySlot)
    /\ fn' = "add_mountopt"
    /\ UNCHANGED <<fin, fnFixed>>

MountoptInit ==
    /\ FnRest
    /\ BindNull
    /\ fn = "none"
    /\ fin \in SeqsUpTo(MountOpts, MaxOpts)
    /\ fout = <<>>

MountoptNext ==
    \/ MountslotCtor
    \/ AddMountopts

SpecMountopt == MountoptInit /\ [][MountoptNext]_vars

\* C32: in a mount entry made from a sequence of options, by the constructor
\* or by add_mountopt, an rw after the last ro leaves the read-only flag
\* clear, and rw sets no flag: the flags are among those of the other
\* options.
C32_RwClearsReadOnly ==
    fn \in {"mountslot", "add_mountopt"} =>
        /\ (\E j \in DOMAIN fin :
                /\ fin[j] = "rw"
                /\ \E i \in 1..(j - 1) : fin[i] = "ro"
                /\ \A k \in (j + 1)..Len(fin) : fin[k] # "ro")
            => "ro" \notin fout.opts
        /\ fout.opts \subseteq {fin[i] : i \in DOMAIN fin} \ {"rw"}

(***************************************************************************)
(* SpecExec: the environment and the argument vector jailownerinfo::exec   *)
(* builds for the payload from the environment of pa-jail and from the     *)
(* arguments after the user name.                                          *)
(***************************************************************************)

\* Bound: the arguments after the user name.
MaxArgc == 3

\* Arguments of the model: P=1, PATH=x, X=1, a, and b c.
ExecArgs == {<<"P", "=", "1">>, <<"P", "A", "T", "H", "=", "x">>,
             <<"X", "=", "1">>, <<"a">>, <<"b", " ", "c">>}

\* Environments pa-jail is started with: empty, PATH=h, and TERM=t PATH=h.
Environs == {<<>>, << <<"P", "A", "T", "H", "=", "h">> >>,
             << <<"T", "E", "R", "M", "=", "t">>,
                <<"P", "A", "T", "H", "=", "h">> >>}

\* strncmp(a, b, n) == 0.
strncmp0(a, b, n) ==
    \A k \in 1..n :
        \/ ByteAt(a, k) = ByteAt(b, k)
        \/ \E m \in 1..(k - 1) : ByteAt(a, m) = "" /\ ByteAt(b, m) = ""

\* jailownerinfo::exec, 2272-2285: the entry of environ that begins with
\* name, the last if there are several, otherwise dflt.
FromEnviron(environ, name, dflt) ==
    LET found == {i \in DOMAIN environ : strncmp0(environ[i], name, Len(name))}
    IN  IF found = {} THEN dflt
        ELSE environ[CHOOSE i \in found : \A j \in found : j <= i]

\* jailownerinfo::exec, 2265-2295: newenv_ before the arguments are read;
\* an entry that is not pushed is <<>> here and dropped.
BaseEnv(environ) ==
    SelectSeq(
      << FromEnviron(environ, <<"P", "A", "T", "H", "=">>,
                     <<"P", "A", "T", "H", "=", "/", "b", "i", "n">>),
         FromEnviron(environ, <<"L", "A", "N", "G", "=">>,
                     <<"L", "A", "N", "G", "=", "C">>),
         FromEnviron(environ, <<"T", "E", "R", "M", "=">>, <<>>),
         FromEnviron(environ, <<"L", "D", "_", "L", "I", "B", "R", "A", "R",
                                "Y", "_", "P", "A", "T", "H", "=">>, <<>>),
         <<"H", "O", "M", "E", "=", "/", "h">> >>,
      LAMBDA e : e # <<>>)

\* jailownerinfo::exec, 2299-2301: argpos - arg, from the k-th byte of arg.
RECURSIVE NameLen(_, _)
NameLen(arg, k) ==
    IF ByteAt(arg, k + 1) # "" /\ (isalnum(arg[k + 1]) \/ arg[k + 1] = "_")
    THEN NameLen(arg, k + 1) ELSE k

\* jailownerinfo::exec, 2305-2313: arg put into newenv.
PutEnv(newenv, arg) ==
    LET n == NameLen(arg, 0)
        hits == {i \in DOMAIN newenv : strncmp0(newenv[i], arg, n)}
    IN  IF hits # {}
        THEN [newenv EXCEPT ![CHOOSE i \in hits : \A j \in hits : i <= j]
                               = arg]
        ELSE Append(newenv, arg)

\* jailownerinfo::exec, 2296-2315: the loop over the arguments from the
\* i-th; gives newenv_ and the arguments left.
RECURSIVE ReadEnv(_, _, _)
ReadEnv(argv, i, newenv) ==
    IF i > Len(argv) THEN [newenv |-> newenv, words |-> <<>>]
    ELSE IF NameLen(argv[i], 0) = 0
            \/ ByteAt(argv[i], NameLen(argv[i], 0) + 1) # "="
    THEN [newenv |-> newenv, words |-> SubSeq(argv, i, Len(argv))]
    ELSE ReadEnv(argv, i + 1, PutEnv(newenv, argv[i]))

\* jailownerinfo::exec, 2335-2338: the command after shell_quote(argv[0]),
\* from the i-th argument on.
RECURSIVE QuoteFrom(_, _, _)
QuoteFrom(words, i, command) ==
    IF i > Len(words) THEN command
    ELSE QuoteFrom(words, i + 1, command \o <<" ">> \o shell_quote(words[i]))

\* jailownerinfo::exec, 2318-2342: argv_ without its closing nullptr.
ShellArgv(words) ==
    LET sh == <<"s", "h">>
        l == <<"-", "l">>
        c == <<"-", "c">>
    IN  IF Len(words) = 0 THEN <<sh, l>>
        ELSE IF Len(words) = 1 THEN <<sh, l, c, words[1]>>
        ELSE <<sh, l, c, QuoteFrom(words, 1, shell_quote(words[1]))>>

\* jailownerinfo::exec, 2263-2342.
OwnerExec ==
    /\ fn = "none"
    /\ LET r == ReadEnv(fin.argv, 1, BaseEnv(fin.environ))
       IN  fout' = [newenv |-> r.newenv, words |-> r.words,
                    argv |-> ShellArgv(r.words)]
    /\ fn' = "exec"
    /\ UNCHANGED <<fin, fnFixed>>

ExecInit ==
    /\ FnRest
    /\ BindNull
    /\ fn = "none"
    /\ fin \in [environ : Environs, argv : SeqsUpTo(ExecArgs, MaxArgc)]
    /\ fout = <<>>

ExecNext ==
    \/ OwnerExec

SpecExec == ExecInit /\ [][ExecNext]_vars

\* The words quoted and joined by single blanks.
RECURSIVE Joined(_)
Joined(words) ==
    IF Len(words) = 1 THEN shell_quote(words[1])
    ELSE shell_quote(words[1]) \o <<" ">> \o Joined(Tail(words))

\* C34: with the command words w1..wk left after the NAME=VALUE arguments,
\* the shell gets [sh, -l] for k = 0, w1 itself after -c for k = 1, and for
\* k >= 2 the quoted words joined by single blanks, each once and in order.
C34_CommandIsQuotedWords ==
    fn = "exec" =>
        LET k == Len(fout.words)
        IN  /\ k = 0 => fout.argv = << <<"s", "h">>, <<"-", "l">> >>
            /\ k = 1 => fout.argv[4] = fout.words[1]
            /\ k >= 2 => fout.argv[4] = Joined(fout.words)

\* e is an entry of the variable name: it begins with name and "=".
EntryOf(e, name) ==
    /\ Len(e) > Len(name)
    /\ SubSeq(e, 1, Len(name) + 1) = name \o <<"=">>

\* The NAME=VALUE arguments of argv, in order.
Assignments(argv, words) == SubSeq(argv, 1, Len(argv) - Len(words))

\* arg replaces the first entry of its variable, or is appended.
PutExact(newenv, arg) ==
    LET hits == {i \in DOMAIN newenv :
                   EntryOf(newenv[i], SubSeq(arg, 1, NameLen(arg, 0)))}
    IN  IF hits # {}
        THEN [newenv EXCEPT ![CHOOSE i \in hits : \A j \in hits : i <= j]
                               = arg]
        ELSE Append(newenv, arg)

RECURSIVE PutAllExact(_, _, _)
PutAllExact(as, i, newenv) ==
    IF i > Len(as) THEN newenv
    ELSE PutAllExact(as, i + 1, PutExact(newenv, as[i]))

\* C35: the environment of the payload has exactly one PATH= and one HOME=
\* entry, and each NAME=VALUE argument has replaced the entry whose variable
\* is exactly NAME if there was one and was appended otherwise.
C35_EnvHasOnePathAndHome ==
    fn = "exec" =>
        /\ \A name \in {<<"P", "A", "T", "H">>, <<"H", "O", "M", "E">>} :
              Cardinality({i \in DOMAIN fout.newenv :
                             EntryOf(fout.newenv[i], name)}) = 1
        /\ fout.newenv = PutAllExact(Assignments(fin.argv, fout.words), 1,
                                     BaseEnv(fin.environ))

\* C33: at every call of esfd::write_event the subscriber's output_off_ is
\* inside what from_slave_ holds: bufpos_ <= output_off_ <= bufpos_ + tail_.
C33_EventStartsInBuffer ==
    \A k \in DOMAIN evlog :
        /\ evlog[k].bufpos <= evlog[k].ev.offset
        /\ evlog[k].ev.offset <= evlog[k].last

(***************************************************************************)
(* SpecBind: invocations of pa-jail in a row whose manifest has the line   *)
(* SRC [bind TAG FILES], seen from the bind source SRC.  FILES names two   *)
(* files of the host; the tag file holds a tag and a newline.              *)
(***************************************************************************)

\* Bound: the invocations in a row.
MaxBinds == 3

\* The tags of the manifest and the entries of FILES.
Tags == {"1", "2"}
BindFiles == <<"f", "g">>

\* fix_jail_bind_src, 1013-1015: the tag file without trailing white space.
RECURSIVE got_tag(_)
got_tag(contents) ==
    IF contents # <<>> /\ contents[Len(contents)] \in {" ", "\n"}
    THEN got_tag(SubSeq(contents, 1, Len(contents) - 1)) ELSE contents

\* What no step of SpecBind changes.
bindFixed == <<sharedVars, action, has_user, has_cmd, pidfile, caller_owner,
               caller_group, owner_, group_, goer, syscalls, idlog, tries,
               failed, dir, permdir, nodes, last_pos, fd, parentfd,
               dryrunning, doforce, opened, made, confVars, rmVars, strVars,
               bufVars, addVars, loopVars, fn, fin, fout>>

\* fix_jail_bind_src, 1005-1019, and construct_jail, 1037-1046: the tag is
\* compared; if it differs FILES is read (exit 1 if it cannot be) and the
\* root of the bind source is prepared, which may fail.
FB_Compare ==
    /\ bindpc = "fix_jail_bind_src"
    /\ \/ /\ got_tag(tagfile) = <<want_tag>>
          /\ bindpc' = "main"
          /\ UNCHANGED <<todo, reported, exit_value>>
       \/ /\ got_tag(tagfile) # <<want_tag>>
          /\ \/ /\ bindpc' = "exited"
                /\ exit_value' = 1
                /\ UNCHANGED <<todo, reported>>
             \/ /\ bindpc' = "construct_jail"
                /\ todo' = BindFiles
                /\ reported' = FALSE
                /\ UNCHANGED exit_value
             \/ /\ ~dryrun
                /\ bindpc' = "tag"
                /\ reported' = TRUE
                /\ exit_value' = 1
                /\ UNCHANGED todo
    /\ UNCHANGED <<tagfile, bindsrc, hostfiles, want_tag, rebuilt, binds,
                   dryrun, bindFixed>>

\* construct_jail, 1053-1212, for one line of FILES: handle_copy, 899-956.
\* lstat of a file the host lacks fails, and a copy may fail; both report
\* through perror_fail, 104-108, and the loop goes on.
FB_Line ==
    /\ bindpc = "construct_jail"
    /\ todo # <<>>
    /\ todo' = Tail(todo)
    /\ \/ /\ Head(todo) \in hostfiles
          /\ bindsrc' = IF dryrun THEN bindsrc ELSE bindsrc \cup {Head(todo)}
          /\ UNCHANGED <<reported, exit_value>>
       \/ /\ Head(todo) \notin hostfiles \/ ~dryrun
          /\ reported' = TRUE
          /\ exit_value' = 1
          /\ UNCHANGED bindsrc
    /\ UNCHANGED <<bindpc, tagfile, hostfiles, want_tag, rebuilt, binds,
                   dryrun, bindFixed>>

\* construct_jail, 1214: the end of FILES.
FB_Return ==
    /\ bindpc = "construct_jail"
    /\ todo = <<>>
    /\ bindpc' = "tag"
    /\ rebuilt' = IF reported \/ dryrun THEN rebuilt
                  ELSE rebuilt \cup {want_tag}
    /\ UNCHANGED <<tagfile, bindsrc, hostfiles, want_tag, todo, reported,
                   binds, exit_value, dryrun, bindFixed>>

\* fix_jail_bind_src, 1021-1033: the tag is written unless the run is dry;
\* open or write may fail, the file being truncated once it is open.
FB_Tag ==
    /\ bindpc = "tag"
    /\ \/ /\ dryrun
          /\ bindpc' = "main"
          /\ UNCHANGED <<tagfile, exit_value>>
       \/ /\ ~dryrun
          /\ bindpc' = "main"
          /\ tagfile' = <<want_tag, "\n">>
          /\ UNCHANGED exit_value
       \/ /\ ~dryrun
          /\ bindpc' = "exited"
          /\ tagfile' \in {tagfile, <<>>, <<want_tag>>}
          /\ exit_value' = 1
    /\ UNCHANGED <<bindsrc, hostfiles, want_tag, todo, reported, rebuilt,
                   binds, dryrun, bindFixed>>

\* The rest of the invocation and the start of the next one, whose host
\* may have other files and whose manifest may have another tag.
FB_Again ==
    /\ bindpc \in {"main", "exited"}
    /\ binds < MaxBinds
    /\ binds' = binds + 1
    /\ bindpc' = "fix_jail_bind_src"
    /\ want_tag' \in Tags
    /\ hostfiles' \in SUBSET {BindFiles[i] : i \in DOMAIN BindFiles}
    /\ dryrun' \in BOOLEAN
    /\ exit_value' = 0
    /\ UNCHANGED <<tagfile, bindsrc, todo, reported, rebuilt, bindFixed>>

BindInit ==
    /\ FnRest
    /\ fn = "none"
    /\ fin = <<>>
    /\ fout = <<>>
    /\ bindpc = "main"
    /\ tagfile = <<>>
    /\ bindsrc = {}
    /\ hostfiles = {}
    /\ want_tag = ""
    /\ todo = <<>>
    /\ reported = FALSE
    /\ rebuilt = {}
    /\ binds = 0

BindNext ==
    \/ FB_Compare
    \/ FB_Line
    \/ FB_Return
    \/ FB_Tag
    \/ FB_Again

SpecBind == BindInit /\ [][BindNext]_vars

\* C36: the tag file holds TAG only if a rebuild of the bind source from
\* FILES has ended for TAG without reporting an error.
C36_TagMeansRebuilt ==
    \A t \in Tags : got_tag(tagfile) = <<t>> => t \in rebuilt

(***************************************************************************)
(* SpecManifest: the loop of construct_jail over the lines of a manifest,  *)
(* up to the assertions of handle_copy.  The lines of the model have no    *)
(* [FLAGS]; a line is the sequence of its characters.                      *)
(***************************************************************************)

\* Bound: the lines of the manifest text.
MaxText == 3

\* Lines of the model: a, /a, //a, /j/a, the header j: and b <- /a.
TextLines == {<<"a">>, <<"/", "a">>, <<"/", "/", "a">>,
              <<"/", "j", "/", "a">>, <<"j", ":">>,
              <<"b", " ", "<", "-", " ", "/", "a">>}

\* memmem(line, endline - line, " <- ", 4), 1173: where the arrow begins,
\* 0 if there is none.
Arrow(line) ==
    LET at == {i \in 1..(Len(line) - 3) :
                 SubSeq(line, i, i + 3) = <<" ", "<", "-", " ">>}
    IN  IF at = {} THEN 0 ELSE CHOOSE i \in at : \A j \in at : i <= j

\* construct_jail, 1071-1090: cursrcdir after the header `line`.
RECURSIVE OneEndSlash(_)
OneEndSlash(d) ==
    IF Len(d) > 1 /\ d[Len(d)] = "/" /\ d[Len(d) - 1] = "/"
    THEN OneEndSlash(SubSeq(d, 1, Len(d) - 1))
    ELSE IF d[Len(d)] # "/" THEN Append(d, "/") ELSE d

HeaderDir(line) ==
    LET named == IF Len(line) = 2 /\ line[1] = "." THEN <<"/">>
                 ELSE SubSeq(line, 1, Len(line) - 1)
    IN  OneEndSlash(IF ByteAt(named, 1) # "/" THEN <<"/">> \o named
                    ELSE named)

\* construct_jail, 1172-1183: src and dst of an entry.
EntryOfLine(line, cursrcdir, curdstsubdir) ==
    LET arrow == Arrow(line)
        last == IF arrow = 0 THEN Len(line) ELSE arrow - 1
    IN  [src |-> IF arrow # 0 THEN SubSeq(line, arrow + 4, Len(line))
                 ELSE IF line[1] = "/" THEN line
                 ELSE cursrcdir \o line,
         subdst |-> curdstsubdir
                      \o SubSeq(line, IF line[1] = "/" THEN 2 ELSE 1, last)]

\* handle_copy, 903-906: its assertions.
HandleCopyAsserts(subdst, dstroot) ==
    /\ ByteAt(subdst, 1) = "/"
    /\ Len(subdst) = 1 \/ subdst[2] # "/"
    /\ dstroot[Len(dstroot)] # "/"
    /\ SubSeq(subdst, 1, MinOf(Len(subdst), Len(dstroot))) # dstroot

\* construct_jail, 1066-1068: a comment.  (The lines here are not blank.)
CJ_Comment ==
    /\ fn = "construct_jail"
    /\ fout.lineno <= Len(fin.text)
    /\ fin.text[fout.lineno][1] = "#"
    /\ fout' = [fout EXCEPT !.lineno = @ + 1]
    /\ UNCHANGED <<fn, fin, fnFixed>>

\* construct_jail, 1070-1093: a directory header.
CJ_Header ==
    /\ fn = "construct_jail"
    /\ fout.lineno <= Len(fin.text)
    /\ LET line == fin.text[fout.lineno]
       IN  /\ line[1] # "#"
           /\ line[Len(line)] = ":"
           /\ fout' = [fout EXCEPT !.lineno = @ + 1,
                                   !.cursrcdir = HeaderDir(line),
                                   !.curdstsubdir = HeaderDir(line)]
    /\ UNCHANGED <<fn, fin, fnFixed>>

\* construct_jail, 1172-1210, and handle_copy, 903-906: an entry without
\* flags is handed to handle_copy, which aborts if an assertion fails.
CJ_Entry ==
    /\ fn = "construct_jail"
    /\ fout.lineno <= Len(fin.text)
    /\ LET line == fin.text[fout.lineno]
           e == EntryOfLine(line, fout.cursrcdir, fout.curdstsubdir)
       IN  /\ line[1] # "#"
           /\ line[Len(line)] # ":"
           /\ fout' = [fout EXCEPT !.lineno = @ + 1,
                                   !.calls = Append(@, e)]
           /\ fn' = IF HandleCopyAsserts(e.subdst, fin.dstroot)
                    THEN fn ELSE "abort"
    /\ UNCHANGED <<fin, fnFixed>>

ManifestInit ==
    /\ FnRest
    /\ BindNull
    /\ fn = "construct_jail"
    /\ fin \in [dstroot : {<<"/", "j">>},
                text : SeqsUpTo(TextLines \cup {<<"#", "a">>}, MaxText)]
    /\ fout = [lineno |-> 1, cursrcdir |-> <<"/">>, curdstsubdir |-> <<"/">>,
               calls |-> <<>>]

ManifestNext ==
    \/ CJ_Comment
    \/ CJ_Header
    \/ CJ_Entry

SpecManifest == ManifestInit /\ [][ManifestNext]_vars

\* C37: in every call of handle_copy the destination sub-path begins with
\* exactly one slash and does not begin with the path of the jail.
C37_HandleCopyAssertionsHold ==
    fn \in {"construct_jail", "abort"} =>
        \A k \in DOMAIN fout.calls :
            LET subdst == fout.calls[k].subdst
                dstroot == fin.dstroot
            IN  /\ subdst # <<>> /\ subdst[1] = "/"
                /\ Len(subdst) > 1 => subdst[2] # "/"
                /\ ~(/\ Len(subdst) >= Len(dstroot)
                     /\ SubSeq(subdst, 1, Len(dstroot)) = dstroot)

=============================================================================
